---------------------------- MODULE Spec2Model ----------------------------
(***************************************************************************)
(* Model of the guide graph of shifter/guide.py: the parameter registry    *)
(* (class Main), the guide graph (class Rig) with its three population     *)
(* modes, the reconciliation pass over a scene hierarchy and the build     *)
(* orchestrator (draw_guide, drawUpdate, update).                          *)
(*                                                                         *)
(* The host scene is a function from node ids to node records.  A node     *)
(* name is the sequence of its atoms, "_" and "|" being atoms of their     *)
(* own, so that split("_") and "_".join are computed and not assumed.      *)
(* A reference to a component guide object is the key of that object in    *)
(* `components`; an empty sequence stands for None / the empty string and  *)
(* node id 0 for "no node".                                                *)
(***************************************************************************)
EXTENDS Integers, Sequences, FiniteSets, TLC

VARIABLES
    paramNames,       \* Main.paramNames of the Rig
    paramDefs,        \* Main.paramDefs: name -> [kind, value]
    values,           \* Main.values: name -> value
    valid,            \* Main.valid
    model,            \* Rig.model: a node id, or Unset before any assignment
    controllers,      \* Rig.controllers: name -> node of a controller shape
    components,       \* Rig.components: fullName -> component guide
    componentsIndex,  \* Rig.componentsIndex
    scene,            \* the host scene: node id -> node
    pc,               \* position of the operation under study
    input,            \* arguments of the operation under study
    output,           \* what the operation returned
    log,              \* scene mutations and draws, in order
    frame             \* local variables of the operation in progress

vars == <<paramNames, paramDefs, values, valid, model, controllers, components,
          componentsIndex, scene, pc, input, output, log, frame>>

-----------------------------------------------------------------------------
(* Bounds *)

MaxComps == 3       \* components of a template / of a drawn guide

-----------------------------------------------------------------------------
(* Generic helpers *)

None == <<>>
Unset == -1
NoNode == 0

Range(s) == {s[i] : i \in DOMAIN s}

Last(s) == s[Len(s)]

SetToSeqs(S) == {s \in [1..Cardinality(S) -> S] : Range(s) = S}

RECURSIVE SplitAt(_, _)
\* str.split(sep): the pieces of name between the separators
SplitAt(name, sep) ==
    IF \A i \in DOMAIN name : name[i] /= sep
    THEN <<name>>
    ELSE LET k == CHOOSE i \in DOMAIN name :
                     name[i] = sep /\ \A j \in 1..(i-1) : name[j] /= sep
         IN <<SubSeq(name, 1, k-1)>> \o SplitAt(SubSeq(name, k+1, Len(name)), sep)

RECURSIVE JoinWith(_, _)
\* sep.join(pieces)
JoinWith(pieces, sep) ==
    IF pieces = <<>> THEN <<>>
    ELSE IF Len(pieces) = 1 THEN pieces[1]
    ELSE pieces[1] \o <<sep>> \o JoinWith(Tail(pieces), sep)

Take(s, n) == SubSeq(s, 1, IF n < Len(s) THEN n ELSE Len(s))
Drop(s, n) == SubSeq(s, n+1, Len(s))

-----------------------------------------------------------------------------
(* Names *)

CompNames == <<"a", "b", "c", "d", "e">>

\* "<name>_<side><index>", side C and index 0 throughout
MkFullName(nm) == <<nm, "_", "C", "0">>

\* the attachment points every component guide of the model exposes
LocalNames == {<<"root">>, <<"tip">>}

\* component Main.getName(localName): fullName + "_" + localName
getName(fullName, localName) == fullName \o <<"_">> \o localName

-----------------------------------------------------------------------------
(* Parameter registry (class Main) *)

EmptyMap == [x \in {} |-> None]

Put(f, k, v) == [x \in (DOMAIN f) \cup {k} |-> IF x = k THEN v ELSE f[x]]

\* a registry is [paramNames, paramDefs, values, valid]
MainInit == [paramNames |-> <<>>, paramDefs |-> EmptyMap, values |-> EmptyMap,
             valid |-> TRUE]

addParam(reg, scriptName, valueType, value) ==
    [reg EXCEPT !.paramDefs = Put(@, scriptName, [kind |-> valueType, value |-> value]),
                !.values = Put(@, scriptName, value),
                !.paramNames = Append(@, scriptName)]

addEnumParam(reg, scriptName, value) ==
    [reg EXCEPT !.paramDefs = Put(@, scriptName, [kind |-> "enum", value |-> value]),
                !.values = Put(@, scriptName, value),
                !.paramNames = Append(@, scriptName)]

\* attribute.FCurveParamDef starts with no value
addFCurveParam(reg, scriptName, keys) ==
    [reg EXCEPT !.paramDefs = Put(@, scriptName, [kind |-> "fcurve", value |-> None]),
                !.values = Put(@, scriptName, None),
                !.paramNames = Append(@, scriptName)]

\* an addColorParam that forgets the name list
addColorParam_NoName(reg, scriptName, value) ==
    [reg EXCEPT !.paramDefs = Put(@, scriptName, [kind |-> "color", value |-> value])]

\* addColorParam gives values no entry
addColorParam(reg, scriptName, value) ==
    [reg EXCEPT !.paramDefs = Put(@, scriptName, [kind |-> "color", value |-> value]),
                !.paramNames = Append(@, scriptName)]

\* a setParamDefValue that registers the name it does not find
setParamDefValue_Register(reg, scriptName, value) ==
    [reg |-> [reg EXCEPT !.paramDefs = Put(@, scriptName,
                                           [kind |-> "string", value |-> value]),
                         !.values = Put(@, scriptName, value)],
     ret |-> TRUE]

\* setParamDefValue(scriptName, value) and what it returns
setParamDefValue(reg, scriptName, value) ==
    IF scriptName \notin DOMAIN reg.paramDefs
    THEN [reg |-> reg, ret |-> FALSE]
    ELSE [reg |-> [reg EXCEPT !.paramDefs[scriptName].value = value,
                              !.values = Put(@, scriptName, value)],
          ret |-> TRUE]

\* Rig.addParameters: the registrations of the rig options.  One option of
\* each kind the rig registers is kept (string, enum, bool); the others are
\* further addParam calls of the same kinds.
addParameters(reg) ==
    addParam(addEnumParam(addParam(reg, "rig_name", "string", "rig"),
                          "mode", 0),
             "ismodel", "bool", TRUE)

RigInit == addParameters(MainInit)

RECURSIVE setParamDefValuesFromDictIter(_, _, _)
\* the loop of setParamDefValuesFromDict over paramDefs.items(), in the order
\* `order` the dictionary yields them; a name missing from values_dict raises
\* KeyError and leaves the parameters set so far
setParamDefValuesFromDictIter(reg, values_dict, order) ==
    IF order = <<>> THEN [reg |-> reg, err |-> "ok"]
    ELSE LET n == Head(order) IN
         IF n \notin DOMAIN values_dict
         THEN [reg |-> reg, err |-> "KeyError"]
         ELSE setParamDefValuesFromDictIter(
                  [reg EXCEPT !.paramDefs[n].value = values_dict[n],
                              !.values = Put(@, n, values_dict[n])],
                  values_dict, Tail(order))

\* a setParamDefValuesFromDict that forgets the definitions
setParamDefValuesFromDict_ValuesOnly(reg, values_dict, order) ==
    LET r == setParamDefValuesFromDictIter(reg, values_dict, order) IN
    [r EXCEPT !.reg.paramDefs = reg.paramDefs]

setParamDefValuesFromDict(reg, values_dict, order) ==
    setParamDefValuesFromDictIter(reg, values_dict, order)

RECURSIVE get_param_values_iter(_, _, _)
get_param_values_iter(reg, i, acc) ==
    IF i > Len(reg.paramNames) THEN acc
    ELSE get_param_values_iter(reg, i + 1,
             Put(acc, reg.paramNames[i], reg.paramDefs[reg.paramNames[i]].value))

\* Main.get_param_values: the value of every definition, by paramNames
get_param_values(reg) == get_param_values_iter(reg, 1, EmptyMap)

-----------------------------------------------------------------------------
(* The host scene *)

\* a node is [parent, short, attrs, local, cnx]: the id of its parent
\* (NoNode at world level), its short name, its attributes, for a guide
\* element the local name of the attachment point it is, and the source
\* node of each attribute an inbound connection drives
Node(parent, short, attrs, local) ==
    [parent |-> parent, short |-> short, attrs |-> attrs, local |-> local,
     cnx |-> EmptyMap]

\* pm.listConnections(node + "." + a, destination=False, source=True)
listConnections(sc, n, a) ==
    IF a \in DOMAIN sc[n].cnx THEN <<sc[n].cnx[a]>> ELSE <<>>

EmptyScene == [n \in {} |-> Node(NoNode, None, EmptyMap, None)]

hasAttr(sc, n, a) == a \in DOMAIN sc[n].attrs

MaxOf(S) == CHOOSE x \in S : \A y \in S : y <= x

NewId(sc) == IF DOMAIN sc = {} THEN 1 ELSE MaxOf(DOMAIN sc) + 1

AddNode(sc, rec) == Put(sc, NewId(sc), rec)

getParent(sc, n) == sc[n].parent

getChildren(sc, n) == {c \in DOMAIN sc : sc[c].parent = n}

RECURSIVE Ancestors(_, _)
\* the proper ancestors of n
Ancestors(sc, n) ==
    IF sc[n].parent = NoNode THEN {}
    ELSE {sc[n].parent} \cup Ancestors(sc, sc[n].parent)

Descendants(sc, n) == {d \in DOMAIN sc : n \in Ancestors(sc, d)}

\* node.getParent(generations=-1): the top of the node's path, the node
\* itself when it has no parent
Top(sc, n) ==
    IF sc[n].parent = NoNode THEN n
    ELSE CHOOSE a \in Ancestors(sc, n) : sc[a].parent = NoNode

RECURSIVE PathOf(_, _)
\* the path of a node: the short names from the top of the scene down to it
PathOf(sc, n) ==
    IF sc[n].parent = NoNode THEN <<sc[n].short>>
    ELSE Append(PathOf(sc, sc[n].parent), sc[n].short)

\* the last k names of a path
PathTail(path, k) == Drop(path, Len(path) - k)

\* the nodes whose path ends with the names `pieces`
PathMatches(sc, pieces) ==
    {n \in DOMAIN sc : /\ Len(PathOf(sc, n)) >= Len(pieces)
                       /\ PathTail(PathOf(sc, n), Len(pieces)) = pieces}

\* the member of a set of one node, NoNode for any other set
TheOne(hits) == IF Cardinality(hits) = 1 THEN CHOOSE n \in hits : TRUE ELSE NoNode

\* pm.PyNode(name): the one node whose path ends with the pieces of name
\* ("|" separates them); NoNode stands for the MayaNodeError raised when no
\* node or several nodes match
PyNode(sc, name) == TheOne(PathMatches(sc, SplitAt(name, "|")))

\* dag.findChild(node, name): a descendant of node with that short name,
\* NoNode (a false value) when there is none
findChild(sc, node, name) ==
    LET hits == {n \in Descendants(sc, node) : sc[n].short = name} IN
    IF hits = {} THEN NoNode ELSE CHOOSE n \in hits : \A m \in hits : n <= m

\* pm.group(n=name, em=True, ...) at world level: the host appends a digit
\* to a name that is taken among the siblings
FreeName(sc, parent, name) ==
    IF \E n \in DOMAIN sc : sc[n].parent = parent /\ sc[n].short = name
    THEN name \o <<"1">> ELSE name

-----------------------------------------------------------------------------
(* Component guide: the contract of the component guide class *)

IdxStr(i) == <<"0", "1", "2", "3", "4">>[i + 1]

\* fullName of a component guide from its parameter values
FullNameOf(vals) ==
    <<vals.comp_name, "_", vals.comp_side, IdxStr(vals.comp_index)>>

CompValues(nm, p) ==
    [comp_type |-> "control", comp_name |-> nm, comp_side |-> "C",
     comp_index |-> 0, p |-> p]

\* a component guide as the resolver returns it
CompNew ==
    [fullName |-> None, root |-> NoNode, parentComponent |-> None,
     parentLocalName |-> None, child_components |-> <<>>,
     values |-> CompValues("", 0), valid |-> TRUE]

\* component set_from_dict: parameters and recorded children from c_dict
CompSetFromDict(g, c_dict) ==
    [g EXCEPT !.values = c_dict.param_values,
              !.fullName = FullNameOf(c_dict.param_values),
              !.child_components = c_dict.child_components]

\* component get_guide_template_dict; child_components is filled by the rig
CompGetTemplateDict(comps, g) ==
    [param_values |-> g.values,
     parent_fullName |-> IF g.parentComponent /= None
                         THEN comps[g.parentComponent].fullName ELSE None,
     parent_localName |-> IF g.parentComponent /= None
                          THEN g.parentLocalName ELSE None,
     child_components |-> <<>>]

GuideAttrs(vals) ==
    [a \in {"isGearGuide", "comp_type", "comp_name", "comp_side", "comp_index", "p"} |->
        IF a = "isGearGuide" THEN TRUE ELSE vals[a]]

\* component draw(parent): a root node under parent and one node for each
\* other attachment point under that root; returns the new scene, the root
\* being the node NewId(sc)
CompDrawScene(sc, g, parent) ==
    LET rootId == NewId(sc)
        sc1 == AddNode(sc, Node(parent, getName(g.fullName, <<"root">>),
                                GuideAttrs(g.values), <<"root">>))
    IN AddNode(sc1, Node(rootId, getName(g.fullName, <<"tip">>),
                         [a \in {"isGearGuide"} |-> TRUE], <<"tip">>))

-----------------------------------------------------------------------------
(* Rig: population from a template, export to a template *)

\* the graph part of a Rig: [reg, components, componentsIndex, model]
RigNew == [reg |-> RigInit, controllers |-> EmptyMap, components |-> EmptyMap,
           componentsIndex |-> <<>>, model |-> Unset]

\* the resolver: a new component guide for a known type, an exception (any
\* false value here) for a type it cannot import
KnownTypes == {"control"}

getComponentGuide(comp_type) == CompNew

\* getComponentGuide(comp_type) raises: the import of the guide module of a
\* type that is not known fails, and so would getattr(module, "Guide") on
\* anything that is no module
getComponentGuideRaises(comp_type) == comp_type \notin KnownTypes

RECURSIVE set_from_dict_iter(_, _, _)
\* the loop of Rig.set_from_dict over componentsIndex, from position i
set_from_dict_iter(rig, T, i) ==
    IF i > Len(rig.componentsIndex) THEN [rig |-> rig, err |-> "ok"]
    ELSE LET comp == rig.componentsIndex[i] IN
         IF comp \notin DOMAIN T.components_dict
         THEN [rig |-> rig, err |-> "KeyError"]
         ELSE LET c_dict == T.components_dict[comp]
                  comp_guide == CompSetFromDict(
                                    getComponentGuide(c_dict.param_values.comp_type),
                                    c_dict)
                  rig1 == [rig EXCEPT !.components = Put(@, comp, comp_guide)]
                  pName == c_dict.parent_fullName
              IN IF pName = None
                 THEN set_from_dict_iter(rig1, T, i + 1)
                 ELSE IF pName \notin DOMAIN rig1.components
                 THEN [rig |-> rig1, err |-> "KeyError"]
                 ELSE set_from_dict_iter(
                          [rig1 EXCEPT !.components[comp].parentComponent = pName,
                                       !.components[comp].parentLocalName =
                                           c_dict.parent_localName],
                          T, i + 1)

\* a set_from_dict that restores the graph when the load fails
set_from_dict_Rollback(rig, T, order) ==
    LET r == setParamDefValuesFromDict(rig.reg, T.guide_root.param_values, order) IN
    IF r.err /= "ok" THEN [rig |-> rig, err |-> r.err]
    ELSE [rig |-> rig,
          err |-> set_from_dict_iter(
                      [rig EXCEPT !.reg = r.reg,
                                  !.componentsIndex = T.components_list],
                      T, 1).err]

\* Rig.set_from_dict(guide_template_dict); order is the order in which the
\* paramDefs dictionary yields its items
set_from_dict(rig, T, order) ==
    LET r == setParamDefValuesFromDict(rig.reg, T.guide_root.param_values, order) IN
    IF r.err /= "ok" THEN [rig |-> [rig EXCEPT !.reg = r.reg], err |-> r.err]
    ELSE set_from_dict_iter(
             [rig EXCEPT !.reg = r.reg, !.componentsIndex = T.components_list],
             T, 1)

RECURSIVE get_guide_template_dict_iter(_, _, _, _)
\* the loop of Rig.get_guide_template_dict over componentsIndex
get_guide_template_dict_iter(rig, i, components_list, components_dict) ==
    IF i > Len(rig.componentsIndex)
    THEN [list |-> components_list, dict |-> components_dict, err |-> "ok"]
    ELSE LET comp_guide == rig.components[rig.componentsIndex[i]]
             c_name == comp_guide.fullName
             c_dict == CompGetTemplateDict(rig.components, comp_guide)
             dict1 == Put(components_dict, c_name, c_dict)
             pn == c_dict.parent_fullName
         IN IF pn = None
            THEN get_guide_template_dict_iter(rig, i + 1,
                     Append(components_list, c_name), dict1)
            ELSE IF pn \notin DOMAIN dict1
            THEN [list |-> components_list, dict |-> dict1, err |-> "KeyError"]
            ELSE get_guide_template_dict_iter(rig, i + 1,
                     Append(components_list, c_name),
                     [dict1 EXCEPT ![pn].child_components = Append(@, c_name)])

\* Rig.get_guide_template_dict() with `selected` the host's selection (a
\* sequence of node ids): the document, or the error raised
get_guide_template_dict(rig, sc, selected) ==
    IF rig.model = Unset THEN [err |-> "AttributeError", doc |-> None]
    ELSE LET r == get_guide_template_dict_iter(rig, 1, <<>>, EmptyMap)
             co == {n \in DOMAIN sc : sc[n].short = <<"controllers", "_", "org">>}
         IN IF r.err /= "ok" THEN [err |-> r.err, doc |-> None]
            ELSE IF co /= {} /\ selected = <<>>
            THEN [err |-> "IndexError", doc |-> None]
            ELSE [err |-> "ok",
                  doc |-> [guide_root |-> [name |-> sc[rig.model].short,
                                           param_values |-> get_param_values(rig.reg)],
                           components_list |-> r.list,
                           components_dict |-> r.dict,
                           ctl_buffers_dict |->
                               IF co /= {} /\ (\E c \in co : sc[c].parent = selected[1])
                               THEN "buffers" ELSE "None"]]

-----------------------------------------------------------------------------
(* Rig: drawing *)

ControllersOrg == <<"controllers", "_", "org">>

\* Main.addPropertyParamenters(parent): one attribute for each definition
addPropertyParamenters(reg) ==
    [n \in Range(reg.paramNames) |-> reg.paramDefs[n].value]

\* Rig.initialHierarchy(): the model root "guide" at world level, with the
\* options as attributes, and the controllers container under it.  Returns
\* the scene; the model root is the node NewId(sc).
initialHierarchy(rig, sc) ==
    LET modelId == NewId(sc)
        sc1 == AddNode(sc, Node(NoNode, FreeName(sc, NoNode, <<"guide">>),
                                addPropertyParamenters(rig.reg), None))
    IN AddNode(sc1, Node(modelId, ControllersOrg,
                         [a \in {"visibility"} |-> 0], None))

\* the `partial` argument: not given (None), or a list of names
NoPartial == [given |-> FALSE, names |-> <<>>]
Partial(names) == [given |-> TRUE, names |-> names]

\* a truth value that takes every list, the empty one too, for a request
Truthy_NotNone(partial) == partial.given

\* truth value of `partial`: None and the empty list are false
Truthy(partial) == partial.given /\ partial.names /= <<>>

\* a, or b when a is no node
OrElse(a, b) == IF a /= NoNode THEN a ELSE b

\* the parent node draw_guide looks up for a component with a parentComponent
ParentLookup(sc, comps, mdl, comp_guide) ==
    OrElse(PyNode(sc, getName(comps[comp_guide.parentComponent].fullName,
                              comp_guide.parentLocalName)),
           findChild(sc, mdl, getName(comps[comp_guide.parentComponent].fullName,
                                      comp_guide.parentLocalName)))

\* comp_guide.draw(parent) and its record in the draw log
DrawOne(st, name, parent) ==
    [st EXCEPT !.sc = CompDrawScene(st.sc, st.comps[name], parent),
               !.comps[name].root = NewId(st.sc),
               !.log = Append(@, [op |-> "draw", name |-> name,
                                  parent |-> parent, root |-> NewId(st.sc)])]

\* a partial build that does not pull the children of a drawn component in
ExtendPartial_Nothing(pcs, comp_guide) == pcs

\* "for chd in comp_guide.child_components: partial_components.append(chd)"
ExtendPartial(pcs, comp_guide) == pcs \o comp_guide.child_components

\* a partial build that leaves a seed under the parent looked up for it
ResetParent_Keep(name, partial, initParent, mdl, parent) == parent

\* the reset of the parent of a seed in a partial build
ResetParent(name, partial, initParent, mdl, parent) ==
    IF name \in Range(partial.names) /\ initParent /= NoNode THEN initParent
    ELSE IF name \in Range(partial.names) /\ initParent = NoNode THEN mdl
    ELSE IF parent = NoNode /\ initParent /= NoNode THEN initParent
    ELSE parent

\* one iteration of the loop of draw_guide over componentsIndex; st carries
\* the scene, the components, the local variables parent, partial_components
\* (pcs) and partial_components_idx (idx), and the draw log
DrawGuideBody(st, name, partial, initParent, mdl) ==
    LET comp_guide == st.comps[name]
        parent1 == IF comp_guide.parentComponent /= None
                   THEN ParentLookup(st.sc, st.comps, mdl, comp_guide)
                   ELSE st.parent
        parent2 == IF parent1 = NoNode /\ initParent /= NoNode THEN initParent
                   ELSE IF parent1 = NoNode THEN mdl
                   ELSE parent1
    IN IF Truthy(partial) /\ name \in Range(st.pcs)
       THEN LET parent3 == ResetParent(name, partial, initParent, mdl, parent2)
                st1 == DrawOne([st EXCEPT !.pcs = ExtendPartial(@, comp_guide),
                                          !.parent = parent3],
                               name, parent3)
            IN [st1 EXCEPT !.idx = Append(@, comp_guide.values.comp_index)]
       ELSE IF ~Truthy(partial)
       THEN DrawOne([st EXCEPT !.parent = parent2], name, parent2)
       ELSE [st EXCEPT !.parent = parent2]

RECURSIVE DrawGuideLoop_StopEarly(_, _, _, _, _, _)
\* a pass that leaves the last entry of componentsIndex out
DrawGuideLoop_StopEarly(st, index, i, partial, initParent, mdl) ==
    IF i > Len(index) - 1 THEN st
    ELSE DrawGuideLoop_StopEarly(DrawGuideBody(st, index[i], partial, initParent, mdl),
                                 index, i + 1, partial, initParent, mdl)

RECURSIVE DrawGuideLoop(_, _, _, _, _, _)
\* the loop of draw_guide over componentsIndex, from position i
DrawGuideLoop(st, index, i, partial, initParent, mdl) ==
    IF i > Len(index) THEN st
    ELSE DrawGuideLoop(DrawGuideBody(st, index[i], partial, initParent, mdl),
                       index, i + 1, partial, initParent, mdl)

\* Rig.draw_guide(partial, initParent): [rig, sc, log, ret]; ret.pair is
\* FALSE for the early return (None), else ret holds the pair returned:
\* names (partial_components, None when given is FALSE) and idx
draw_guide(rig, sc, partial, initParent) ==
    IF initParent /= NoNode /\ ~hasAttr(sc, Top(sc, initParent), "ismodel")
    THEN [rig |-> rig, sc |-> sc, log |-> <<>>,
          ret |-> [pair |-> FALSE, names |-> None, given |-> FALSE, idx |-> <<>>]]
    ELSE LET mdl == IF initParent /= NoNode THEN Top(sc, initParent) ELSE NewId(sc)
             sc0 == IF initParent /= NoNode THEN sc ELSE initialHierarchy(rig, sc)
             log0 == IF initParent /= NoNode THEN <<>>
                     ELSE <<[op |-> "initialHierarchy", name |-> None,
                             parent |-> NoNode, root |-> mdl]>>
             st0 == [sc |-> sc0, comps |-> rig.components, parent |-> NoNode,
                     pcs |-> partial.names, idx |-> <<>>, log |-> log0]
             st == DrawGuideLoop(st0, rig.componentsIndex, 1, partial, initParent, mdl)
         IN [rig |-> [rig EXCEPT !.model = mdl, !.components = st.comps],
             sc |-> st.sc, log |-> st.log,
             ret |-> [pair |-> TRUE,
                      names |-> IF Truthy(partial) THEN st.pcs ELSE None,
                      given |-> Truthy(partial),
                      idx |-> st.idx]]

-----------------------------------------------------------------------------
(* Rig: reconciliation against a scene hierarchy *)

\* the last k names of the path of n name no other node
UniqueTail(sc, n, k) == PathMatches(sc, PathTail(PathOf(sc, n), k)) = {n}

\* the least number of names of the path of n that name n alone
ShortestTail(sc, n) ==
    CHOOSE k \in 1..Len(PathOf(sc, n)) :
        /\ UniqueTail(sc, n, k)
        /\ \A j \in 1..(k - 1) : ~UniqueTail(sc, n, j)

\* node.name(): the shortest partial path that names no other node, its
\* pieces joined by "|"; the short name when no other node carries it
NameOf(sc, n) == JoinWith(PathTail(PathOf(sc, n), ShortestTail(sc, n)), "|")

\* "self.valid = <the attribute exists>" in place of the one-way assignment
setParamDefValuesFromPropertyBody_Assign(reg, sc, node, n) ==
    IF ~(n \in DOMAIN sc[node].attrs)
    THEN [reg EXCEPT !.valid = FALSE]
    ELSE [reg EXCEPT !.valid = TRUE,
                     !.paramDefs[n].value = sc[node].attrs[n],
                     !.values[n] = sc[node].attrs[n]]

\* the node n as the value of a parameter
NodeValue(n) == <<"PyNode", IdxStr(n)>>

\* fcurve.getFCurveValues(curve, divisions): the samples of the curve
getFCurveValues(sc, curve) == sc[curve].attrs["samples"]

\* a connection branch that mirrors the source node into the definition
PropertyFromConnection_Mirror(reg, sc, node, n) ==
    [reg EXCEPT !.paramDefs[n].value = NodeValue(listConnections(sc, node, n)[1]),
                !.values = Put(@, n, NodeValue(listConnections(sc, node, n)[1]))]

\* "paramDef.value = None; self.values[scriptName] = cnx[0]"
PropertyFromConnection(reg, sc, node, n) ==
    [reg EXCEPT !.paramDefs[n].value = None,
                !.values = Put(@, n, NodeValue(listConnections(sc, node, n)[1]))]

\* the curve branch: both sides take the samples of the connected curve
PropertyFromCurve(reg, sc, node, n) ==
    [reg EXCEPT !.paramDefs[n].value =
                    getFCurveValues(sc, listConnections(sc, node, n)[1]),
                !.values = Put(@, n, getFCurveValues(sc, listConnections(sc, node, n)[1]))]

\* the iteration for parameter n raises: a curve parameter whose attribute
\* has no inbound connection (cnx[0] of an empty list)
PropertyRaises(reg, sc, node, n) ==
    /\ hasAttr(sc, node, n)
    /\ reg.paramDefs[n].kind = "fcurve"
    /\ listConnections(sc, node, n) = <<>>

\* an iteration that stops reading at the first missing attribute
setParamDefValuesFromPropertyBody_Abort(reg, sc, node, n) ==
    IF ~hasAttr(sc, node, n) \/ ~reg.valid
    THEN [reg EXCEPT !.valid = FALSE]
    ELSE [reg EXCEPT !.paramDefs[n].value = sc[node].attrs[n],
                     !.values = Put(@, n, sc[node].attrs[n])]

\* one iteration of the loop of setParamDefValuesFromProperty(node), for the
\* parameter n
setParamDefValuesFromPropertyBody(reg, sc, node, n) ==
    IF ~hasAttr(sc, node, n)
    THEN [reg EXCEPT !.valid = FALSE]
    ELSE IF reg.paramDefs[n].kind = "fcurve"
    THEN PropertyFromCurve(reg, sc, node, n)
    ELSE IF listConnections(sc, node, n) /= <<>>
    THEN PropertyFromConnection(reg, sc, node, n)
    ELSE [reg EXCEPT !.paramDefs[n].value = sc[node].attrs[n],
                     !.values = Put(@, n, sc[node].attrs[n])]

RECURSIVE setParamDefValuesFromPropertyError(_, _, _, _)
\* the exception setParamDefValuesFromProperty(node) ends with, "ok" when
\* it returns
setParamDefValuesFromPropertyError(reg, sc, node, order) ==
    IF order = <<>> THEN "ok"
    ELSE IF PropertyRaises(reg, sc, node, Head(order)) THEN "IndexError"
    ELSE setParamDefValuesFromPropertyError(reg, sc, node, Tail(order))

RECURSIVE setParamDefValuesFromProperty(_, _, _, _)
\* setParamDefValuesFromProperty(node), paramDefs.items() yielding `order`;
\* an iteration that raises ends the loop
setParamDefValuesFromProperty(reg, sc, node, order) ==
    IF order = <<>> THEN reg
    ELSE IF PropertyRaises(reg, sc, node, Head(order)) THEN reg
    ELSE setParamDefValuesFromProperty(
             setParamDefValuesFromPropertyBody(reg, sc, node, Head(order)),
             sc, node, Tail(order))

CompParamNames == {"comp_type", "comp_name", "comp_side", "comp_index", "p"}

\* component setFromHierarchy(root): the parameters are read from the root
\* node, a missing attribute makes the component guide invalid
CompSetFromHierarchy(g, sc, node) ==
    LET vals == [a \in CompParamNames |->
                    IF hasAttr(sc, node, a) THEN sc[node].attrs[a] ELSE g.values[a]]
    IN [g EXCEPT !.values = vals,
                 !.fullName = FullNameOf(vals),
                 !.root = node,
                 !.valid = \A a \in CompParamNames : hasAttr(sc, node, a)]

\* the component root that owns a guide element: the nearest node tagged
\* comp_type among the element and its ancestors, NoNode when there is none
RECURSIVE OwnerRoot(_, _)
OwnerRoot(sc, n) ==
    IF n = NoNode THEN NoNode
    ELSE IF hasAttr(sc, n, "comp_type") THEN n
    ELSE OwnerRoot(sc, sc[n].parent)

\* component getObjects3(model): the attachment points the component
\* exposes, local name -> node
getObjects3(sc, g) ==
    LET elems == {n \in DOMAIN sc : /\ hasAttr(sc, n, "isGearGuide")
                                    /\ OwnerRoot(sc, n) = g.root}
    IN [l \in {sc[n].local : n \in elems} |->
           CHOOSE n \in elems : sc[n].local = l]

RECURSIVE SortedSeq(_)
\* the members of a set of node ids in increasing order (the order in which
\* the host lists the children of a node)
SortedSeq(S) ==
    IF S = {} THEN <<>>
    ELSE LET m == CHOOSE x \in S : \A y \in S : x <= y
         IN <<m>> \o SortedSeq(S \ {m})

\* a search that registers the valid component guides only
findComponentRegister_ValidOnly(rig, comp_guide) ==
    IF comp_guide.valid
    THEN [rig EXCEPT !.componentsIndex = Append(@, comp_guide.fullName),
                     !.components = Put(@, comp_guide.fullName, comp_guide)]
    ELSE [rig EXCEPT !.reg.valid = FALSE]

\* "if not comp_guide.valid: self.valid = False" and the registration of
\* the component guide found
findComponentRegister(rig, comp_guide) ==
    [rig EXCEPT !.reg.valid = IF comp_guide.valid THEN @ ELSE FALSE,
                !.componentsIndex = Append(@, comp_guide.fullName),
                !.components = Put(@, comp_guide.fullName, comp_guide)]

\* one call of findComponentRecursive(node, branch), the recursive calls
\* left on `stack` as the calls still to make, first call first; a type
\* that does not resolve raises out of every call
findComponentBody(rig, sc, stack) ==
    LET node == Head(stack).node
        branch == Head(stack).branch
        tagged == hasAttr(sc, node, "comp_type")
        comp_guide == IF tagged
                      THEN CompSetFromHierarchy(
                               getComponentGuide(sc[node].attrs["comp_type"]),
                               sc, node)
                      ELSE CompNew
        rig1 == IF tagged THEN findComponentRegister(rig, comp_guide) ELSE rig
        calls == IF branch
                 THEN [i \in 1..Cardinality(getChildren(sc, node)) |->
                          [node |-> SortedSeq(getChildren(sc, node))[i],
                           branch |-> TRUE]]
                 ELSE <<>>
    IN IF tagged /\ getComponentGuideRaises(sc[node].attrs["comp_type"])
       THEN [rig |-> rig, stack |-> <<>>, raised |-> TRUE]
       ELSE [rig |-> rig1, stack |-> calls \o Tail(stack), raised |-> FALSE]

RECURSIVE findComponentLoop(_, _, _)
\* the calls of `stack` one after the other; an exception ends them all
findComponentLoop(rig, sc, stack) ==
    IF stack = <<>> THEN rig
    ELSE LET r == findComponentBody(rig, sc, stack)
         IN findComponentLoop(r.rig, sc, r.stack)

\* findComponentRecursive(node, branch) ends with an exception: a node it
\* visits is tagged with a type getComponentGuide cannot resolve
findComponentRaises(sc, node, branch) ==
    \E n \in {node} \cup (IF branch THEN Descendants(sc, node) ELSE {}) :
        /\ hasAttr(sc, n, "comp_type")
        /\ getComponentGuideRaises(sc[n].attrs["comp_type"])

\* Rig.findComponentRecursive(node, branch)
findComponentRecursive(rig, sc, node, branch) ==
    findComponentLoop(rig, sc, <<[node |-> node, branch |-> branch]>>)

\* the name of the parent component and of the attachment point, read off
\* the name of the scene parent of a component root
ParentNameOf(name) == JoinWith(Take(SplitAt(name, "_"), 2), "_")

\* the local name cut one piece too early: split("_")[1:]
ParentLocalOf_OneEarly(name) == JoinWith(Drop(SplitAt(name, "_"), 1), "_")

ParentLocalOf(name) == JoinWith(Drop(SplitAt(name, "_"), 2), "_")

RECURSIVE FallbackChildren_Root(_, _, _, _, _, _)
\* the inner loop comparing the element with the root of the candidate
\* child, not with the parent of that root
FallbackChildren_Root(comps, sc, index, i, compParent, le) ==
    IF i > Len(index) THEN comps
    ELSE LET nm == index[i]
             hit == le.element /= NoNode /\ le.element = comps[nm].root
         IN FallbackChildren_Root(
                IF hit THEN [comps EXCEPT ![nm].parentComponent = compParent,
                                          ![nm].parentLocalName = le.localName]
                ELSE comps,
                sc, index, i + 1, compParent, le)

RECURSIVE FallbackChildren(_, _, _, _, _, _)
\* the inner loop of the except branch: every component whose root hangs
\* under `element` gets compParent as parent
FallbackChildren(comps, sc, index, i, compParent, le) ==
    IF i > Len(index) THEN comps
    ELSE LET nm == index[i]
             hit == le.element /= NoNode /\ le.element = getParent(sc, comps[nm].root)
         IN FallbackChildren(
                IF hit THEN [comps EXCEPT ![nm].parentComponent = compParent,
                                          ![nm].parentLocalName = le.localName]
                ELSE comps,
                sc, index, i + 1, compParent, le)

RECURSIVE FallbackObjects(_, _, _, _, _)
\* the except branch: for every attachment point of components[name] ...
FallbackObjects(comps, sc, index, name, locals) ==
    IF locals = {} THEN comps
    ELSE LET l == CHOOSE x \in locals : TRUE
             objs == getObjects3(sc, comps[name])
         IN FallbackObjects(
                FallbackChildren(comps, sc, index, 1, name,
                                 [localName |-> l, element |-> objs[l]]),
                sc, index, name, locals \ {l})

\* the except KeyError branch of the parenting loop, for `name`
ParentingFallback(comps, sc, index, name) ==
    FallbackObjects(comps, sc, index, name, DOMAIN getObjects3(sc, comps[name]))

\* one iteration of the parenting loop of setFromHierarchy, for `name`
ParentingBody(comps, sc, index, name) ==
    LET compParent == getParent(sc, comps[name].root) IN
    IF compParent /= NoNode /\ hasAttr(sc, compParent, "isGearGuide")
    THEN LET pName == ParentNameOf(NameOf(sc, compParent))
             pLocal == ParentLocalOf(NameOf(sc, compParent))
         IN IF pName \in DOMAIN comps
            THEN [comps EXCEPT ![name].parentComponent = pName,
                               ![name].parentLocalName = pLocal]
            ELSE ParentingFallback(comps, sc, index, name)
    ELSE comps

RECURSIVE ParentingLoop(_, _, _, _)
ParentingLoop(comps, sc, index, i) ==
    IF i > Len(index) THEN comps
    ELSE ParentingLoop(ParentingBody(comps, sc, index, index[i]), sc, index, i + 1)

\* Rig.addOptionsValues(): the derived option "size"
addOptionsValues(rig) == [rig EXCEPT !.reg.values = Put(@, "size", "computed")]

\* a parenting pass that runs whether the graph is valid or not
Parenting_Always(rig, sc) ==
    addOptionsValues(
        [rig EXCEPT !.components = ParentingLoop(@, sc, rig.componentsIndex, 1)])

\* the "Parenting" part of setFromHierarchy, with addOptionsValues
Parenting(rig, sc) ==
    IF rig.reg.valid
    THEN addOptionsValues(
             [rig EXCEPT !.components =
                             ParentingLoop(@, sc, rig.componentsIndex, 1)])
    ELSE rig

\* the rest of setFromHierarchy after the search: nothing of it runs when
\* the search raised
ParentingUnlessRaised(rig, sc, raised) == IF raised THEN rig ELSE Parenting(rig, sc)

RECURSIVE AddControllers(_, _, _)
\* "self.controllers[child.name().split("|")[-1]] = child" for each child
AddControllers(ctls, sc, children) ==
    IF children = <<>> THEN ctls
    ELSE AddControllers(Put(ctls, Last(SplitAt(NameOf(sc, Head(children)), "|")),
                            Head(children)),
                        sc, Tail(children))

\* the "Get the controllers" block of setFromHierarchy; `org` is what
\* dag.findChild(self.model, "controllers_org") returns
GetControllers(rig, sc, org) ==
    IF org = NoNode THEN rig
    ELSE [rig EXCEPT !.controllers =
                         AddControllers(@, sc, SortedSeq(getChildren(sc, org)))]

RECURSIVE GuideRootOf(_, _, _)
\* the loop of setFromHierarchy that walks up from `root` to the first node
\* tagged comp_type, or to the model root
GuideRootOf(sc, mdl, root) ==
    IF hasAttr(sc, root, "comp_type") \/ mdl = root THEN root
    ELSE GuideRootOf(sc, mdl, getParent(sc, root))

\* Rig.setFromHierarchy(root, branch), paramDefs.items() yielding `order`
setFromHierarchy(rig, sc, root, branch, order) ==
    LET mdl == Top(sc, root)
        rig1 == [rig EXCEPT !.model = mdl,
                            !.reg = setParamDefValuesFromProperty(@, sc, mdl, order)]
        rig2 == GetControllers(rig1, sc, findChild(sc, mdl, ControllersOrg))
        rig3 == findComponentRecursive(rig2, sc, GuideRootOf(sc, mdl, root), branch)
    IN ParentingUnlessRaised(
           rig3, sc, findComponentRaises(sc, GuideRootOf(sc, mdl, root), branch))

-----------------------------------------------------------------------------
(* Rig: update of a guide in place *)

\* pm.delete(node): the node goes with everything under it
DeleteNode(sc, n) ==
    [m \in DOMAIN sc \ ({n} \cup Descendants(sc, n)) |-> sc[m]]

\* pm.rename(node, name)
Rename(sc, n, name) == [sc EXCEPT ![n].short = name]

\* oldParentName.replace(oldParentName.split("|")[0], newParentName)
ReplaceTop(oldParentName, newParentName) ==
    LET pieces == SplitAt(oldParentName, "|") IN
    JoinWith([i \in DOMAIN pieces |->
                 IF pieces[i] = pieces[1] THEN newParentName ELSE pieces[i]],
             "|")

\* "self.model = sel" ahead of the test of the ismodel tag
updateHead_ModelFirst(rig, sc, sel, force, order) ==
    IF ~(("ismodel") \in DOMAIN sc[sel].attrs)
    THEN [rig |-> [rig EXCEPT !.model = sel], sc |-> sc, ret |-> "refused",
          name |-> None]
    ELSE IF setFromHierarchy([rig EXCEPT !.model = sel], sc, sel, TRUE, order).reg.valid
            /\ ~force
    THEN [rig |-> setFromHierarchy([rig EXCEPT !.model = sel], sc, sel, TRUE, order),
          sc |-> sc, ret |-> "uptodate", name |-> NameOf(sc, sel)]
    ELSE [rig |-> setFromHierarchy([rig EXCEPT !.model = sel], sc, sel, TRUE, order),
          sc |-> Rename(sc, sel, NameOf(sc, sel) \o <<"_", "old">>),
          ret |-> "renamed", name |-> NameOf(sc, sel)]

\* the old root renamed aside before the graph is found valid and the
\* update not forced
updateHead_RenameFirst(rig, sc, sel, force, order) ==
    IF ~(("ismodel") \in DOMAIN sc[sel].attrs)
    THEN [rig |-> rig, sc |-> sc, ret |-> "refused", name |-> None]
    ELSE [rig |-> setFromHierarchy([rig EXCEPT !.model = sel], sc, sel, TRUE, order),
          sc |-> Rename(sc, sel, NameOf(sc, sel) \o <<"_", "old">>),
          ret |-> IF setFromHierarchy([rig EXCEPT !.model = sel], sc, sel, TRUE,
                                      order).reg.valid /\ ~force
                  THEN "uptodate" ELSE "renamed",
          name |-> NameOf(sc, sel)]

\* update(sel, force) down to the rename of the old root: ret is "refused"
\* (sel is no guide model), "uptodate" (valid and not forced) or "renamed"
updateHead(rig, sc, sel, force, order) ==
    IF ~hasAttr(sc, sel, "ismodel")
    THEN [rig |-> rig, sc |-> sc, ret |-> "refused", name |-> None]
    ELSE LET name == NameOf(sc, sel)
             rig1 == setFromHierarchy([rig EXCEPT !.model = sel], sc, sel, TRUE, order)
         IN IF rig1.reg.valid /\ ~force
            THEN [rig |-> rig1, sc |-> sc, ret |-> "uptodate", name |-> name]
            ELSE [rig |-> rig1, sc |-> Rename(sc, sel, name \o <<"_", "old">>),
                  ret |-> "renamed", name |-> name]

\* the "controls shape" block of drawUpdate: the controllers container of
\* the new root is deleted and the one of the old root put in its place;
\* err is "raised" when the old root has no container to move
drawUpdateControls(sc, mdl, oldRoot, newParentName) ==
    LET new == PyNode(sc, newParentName \o <<"|">> \o ControllersOrg) IN
    IF new = NoNode THEN [sc |-> sc, err |-> "none"]
    ELSE LET sc1 == DeleteNode(sc, new)
             oldRootName == Head(SplitAt(NameOf(sc1, oldRoot), "|"))
                                \o <<"|">> \o ControllersOrg
             old == PyNode(sc1, oldRootName)
         IN IF old = NoNode THEN [sc |-> sc1, err |-> "raised"]
            ELSE [sc |-> [sc1 EXCEPT ![old].parent = mdl], err |-> "none"]

\* the node drawUpdate draws a component under: the node of the new tree
\* that stands where the old parent of the component stands in the old
\* tree, the new root when there is none
drawUpdateParent(sc, mdl, comp_guide, newParentName) ==
    LET oldParentName == NameOf(sc, getParent(sc, comp_guide.root))
        parent == PyNode(sc, ReplaceTop(oldParentName, newParentName))
    IN IF parent = NoNode THEN mdl ELSE parent

\* one iteration of the component loop of drawUpdate: [sc, comps]
drawUpdateBody(sc, comps, mdl, name, newParentName) ==
    LET parent == drawUpdateParent(sc, mdl, comps[name], newParentName) IN
    [sc |-> CompDrawScene(sc, comps[name], parent),
     comps |-> [comps EXCEPT ![name].root = NewId(sc)]]

\* the end of update without the deletion of the old tree
updateTail_KeepOld(sc, mdl, name, deleteLater) == Rename(sc, mdl, name)

\* the end of update: the new root takes the name, the old tree is deleted
updateTail(sc, mdl, name, deleteLater) ==
    DeleteNode(Rename(sc, mdl, name), deleteLater)

RECURSIVE drawUpdateLoop(_, _, _, _, _)
\* the component loop of drawUpdate from the i-th name on: [sc, comps]
drawUpdateLoop(st, index, i, mdl, newParentName) ==
    IF i > Len(index) THEN st
    ELSE drawUpdateLoop(drawUpdateBody(st.sc, st.comps, mdl, index[i], newParentName),
                        index, i + 1, mdl, newParentName)

\* drawUpdate once the new root mdl is made, r being what the "controls
\* shape" block left: [rig, sc, err]
drawUpdateComponents(rig, r, mdl, newParentName) ==
    IF r.err /= "none" THEN [rig |-> rig, sc |-> r.sc, err |-> r.err]
    ELSE [rig |-> [rig EXCEPT !.components =
                       drawUpdateLoop([sc |-> r.sc, comps |-> rig.components],
                                      rig.componentsIndex, 1, mdl, newParentName).comps],
          sc |-> drawUpdateLoop([sc |-> r.sc, comps |-> rig.components],
                                rig.componentsIndex, 1, mdl, newParentName).sc,
          err |-> "none"]

\* Rig.drawUpdate(oldRoot) in scene sc0, sc being sc0 after initialHierarchy
drawUpdateIn(rig, sc0, sc, oldRoot) ==
    drawUpdateComponents([rig EXCEPT !.model = NewId(sc0)],
                         drawUpdateControls(sc, NewId(sc0), oldRoot,
                                            NameOf(sc, NewId(sc0))),
                         NewId(sc0), NameOf(sc, NewId(sc0)))

\* Rig.drawUpdate(oldRoot): [rig, sc, err]
drawUpdate(rig, sc, oldRoot) ==
    drawUpdateIn(rig, sc, initialHierarchy(rig, sc), oldRoot)

\* update after drawUpdate returned d: the rename and the deletion
updateEnd(d, name, deleteLater) ==
    IF d.err /= "none" THEN [rig |-> d.rig, sc |-> d.sc, ret |-> "failed"]
    ELSE [rig |-> d.rig, sc |-> updateTail(d.sc, d.rig.model, name, deleteLater),
          ret |-> "updated"]

\* update after its head returned h
updateRest(h, sel) ==
    IF h.ret /= "renamed" THEN [rig |-> h.rig, sc |-> h.sc, ret |-> h.ret]
    ELSE updateEnd(drawUpdate(h.rig, h.sc, sel), h.name, sel)

\* Rig.update(sel, force), no host command raising: [rig, sc, ret]
update(rig, sc, sel, force, order) ==
    updateRest(updateHead(rig, sc, sel, force, order), sel)

-----------------------------------------------------------------------------
(* Rig: duplication of a component subtree *)

\* string.convertRLName on a name: the side tags L and R are swapped
convertRLName(name) ==
    [i \in DOMAIN name |-> IF name[i] = "L" THEN "R"
                           ELSE IF name[i] = "R" THEN "L" ELSE name[i]]

\* component symmetrize(): the side of a left or right component is
\* swapped; ok is FALSE for any other side
CompSymmetrize(g) ==
    IF g.values.comp_side \in {"L", "R"}
    THEN [g |-> [g EXCEPT !.values.comp_side = IF @ = "L" THEN "R" ELSE "L",
                          !.fullName = convertRLName(@)],
          ok |-> TRUE]
    ELSE [g |-> g, ok |-> FALSE]

RECURSIVE SymmetrizeLoop(_, _, _)
\* the symmetrize loop of duplicate: [comps, ok]; it stops at the first
\* component that cannot be symmetrized
SymmetrizeLoop(comps, index, i) ==
    IF i > Len(index) THEN [comps |-> comps, ok |-> TRUE]
    ELSE IF ~CompSymmetrize(comps[index[i]]).ok THEN [comps |-> comps, ok |-> FALSE]
    ELSE SymmetrizeLoop([comps EXCEPT ![index[i]] = CompSymmetrize(@).g],
                        index, i + 1)

MaxIndex == 3

\* component setIndex(model): the first index no component of that name and
\* side uses in the guide
CompSetIndex(g, sc, mdl) ==
    LET free == {i \in 0..MaxIndex :
                    findChild(sc, mdl,
                        getName(FullNameOf([g.values EXCEPT !.comp_index = i]),
                                <<"root">>)) = NoNode}
    IN IF free = {} THEN g
       ELSE [g EXCEPT !.values.comp_index = CHOOSE i \in free : \A j \in free : i <= j,
                      !.fullName = FullNameOf(
                          [g.values EXCEPT !.comp_index =
                               CHOOSE i \in free : \A j \in free : i <= j])]

\* the parent duplicate draws a component under
duplicateParent(sc, comps, mdl, comp_guide, symmetrize) ==
    IF comp_guide.parentComponent = None
    THEN IF symmetrize
         THEN OrElse(findChild(sc, mdl,
                         convertRLName(NameOf(sc, getParent(sc, comp_guide.root)))),
                     getParent(sc, comp_guide.root))
         ELSE getParent(sc, comp_guide.root)
    ELSE OrElse(findChild(sc, mdl,
                    getName(comps[comp_guide.parentComponent].fullName,
                            comp_guide.parentLocalName)),
                mdl)

\* the draw of one component by duplicate: the root is reset, the index
\* chosen, the component drawn; the log keeps the root the component had
\* when its draw was invoked
duplicateDraw(st, name, parent, g) ==
    [sc |-> CompDrawScene(st.sc, g, parent),
     comps |-> [st.comps EXCEPT ![name] = [g EXCEPT !.root = NewId(st.sc)]],
     log |-> Append(st.log, [op |-> "draw", name |-> name, parent |-> parent,
                             root |-> NewId(st.sc), rootBefore |-> g.root])]

\* an iteration that leaves the root of the component as discovery set it
duplicateBody_KeepRoot(st, name, mdl, symmetrize) ==
    duplicateDraw(st, name,
                  duplicateParent(st.sc, st.comps, mdl, st.comps[name], symmetrize),
                  CompSetIndex(st.comps[name], st.sc, mdl))

\* one iteration of the draw loop of duplicate
duplicateBody(st, name, mdl, symmetrize) ==
    duplicateDraw(st, name,
                  duplicateParent(st.sc, st.comps, mdl, st.comps[name], symmetrize),
                  CompSetIndex([st.comps[name] EXCEPT !.root = NoNode], st.sc, mdl))

RECURSIVE duplicateLoop(_, _, _, _, _)
duplicateLoop(st, index, i, mdl, symmetrize) ==
    IF i > Len(index) THEN st
    ELSE duplicateLoop(duplicateBody(st, index[i], mdl, symmetrize),
                       index, i + 1, mdl, symmetrize)

\* duplicate once the draw loop ended in st
duplicateEnd(rig, st) ==
    [rig |-> [rig EXCEPT !.components = st.comps], sc |-> st.sc, log |-> st.log,
     ret |-> "done"]

\* duplicate after setFromHierarchy, y being what the symmetrize loop left
duplicateDrawAll(rig, sc, root, symmetrize, y) ==
    IF symmetrize /\ ~y.ok
    THEN [rig |-> [rig EXCEPT !.components = y.comps], sc |-> sc, log |-> <<>>,
          ret |-> "notSymmetric"]
    ELSE IF hasAttr(sc, root, "ismodel")
    THEN [rig |-> [rig EXCEPT !.components = y.comps], sc |-> sc, log |-> <<>>,
          ret |-> "AttributeError"]
    ELSE duplicateEnd(rig, duplicateLoop([sc |-> sc, comps |-> y.comps, log |-> <<>>],
                                         rig.componentsIndex, 1, rig.model,
                                         symmetrize))

\* duplicate after setFromHierarchy left the graph rig
duplicateRest(rig, sc, root, symmetrize) ==
    duplicateDrawAll(rig, sc, root, symmetrize,
                     IF symmetrize
                     THEN SymmetrizeLoop(rig.components, rig.componentsIndex, 1)
                     ELSE [comps |-> rig.components, ok |-> TRUE])

\* Rig.duplicate(root, symmetrize): [rig, sc, log, ret]
duplicate(rig, sc, root, symmetrize, order) ==
    IF ~hasAttr(sc, root, "comp_type")
    THEN [rig |-> rig, sc |-> sc, log |-> <<>>, ret |-> "refused"]
    ELSE duplicateRest(setFromHierarchy(rig, sc, root, TRUE, order),
                       sc, root, symmetrize)

-----------------------------------------------------------------------------
(* The Rig of the state *)

RigOf ==
    [reg |-> [paramNames |-> paramNames, paramDefs |-> paramDefs,
              values |-> values, valid |-> valid],
     controllers |-> controllers, components |-> components,
     componentsIndex |-> componentsIndex, model |-> model]

SetRig(rig) ==
    /\ paramNames' = rig.reg.paramNames
    /\ paramDefs' = rig.reg.paramDefs
    /\ values' = rig.reg.values
    /\ valid' = rig.reg.valid
    /\ controllers' = rig.controllers
    /\ components' = rig.components
    /\ componentsIndex' = rig.componentsIndex
    /\ model' = rig.model

RigUnchanged ==
    UNCHANGED <<paramNames, paramDefs, values, valid, controllers, components,
                componentsIndex, model>>

NoOutput == [err |-> "none", doc |-> None, selected |-> <<>>]

\* no operation in progress
NoFrame == [root |-> NoNode, branch |-> FALSE, params |-> {}, stack |-> <<>>,
            todo |-> <<>>]

-----------------------------------------------------------------------------
(* Templates *)

\* the parent link of a component of a template: none, or a component and
\* one of its attachment points
NoLink == [name |-> None, local |-> None]
Links(n) == {NoLink} \cup
            {[name |-> MkFullName(CompNames[j]), local |-> l] :
                 j \in 1..n, l \in LocalNames}

RECURSIVE ChildrenOf(_, _, _, _)
\* the children of component `name` in list order, as the export records them
ChildrenOf(names, links, name, i) ==
    IF i > Len(names) THEN <<>>
    ELSE (IF links[i].name = name THEN <<names[i]>> ELSE <<>>)
         \o ChildrenOf(names, links, name, i + 1)

\* the template with components CompNames[1..n], parent links `links`,
\* parameter values ps of the components and root options opts
MkTemplate(n, links, ps, opts) ==
    LET names == [i \in 1..n |-> MkFullName(CompNames[i])] IN
    [guide_root |-> [param_values |-> opts],
     components_list |-> names,
     components_dict |->
         [k \in Range(names) |->
             LET i == CHOOSE j \in 1..n : names[j] = k IN
             [param_values |-> CompValues(CompNames[i], ps[i]),
              parent_fullName |-> links[i].name,
              parent_localName |-> links[i].local,
              child_components |-> ChildrenOf(names, links, k, 1)]]]

RootOptions ==
    {[n \in {"rig_name", "mode", "ismodel"} |->
         IF n = "rig_name" THEN o[1] ELSE IF n = "mode" THEN o[2] ELSE TRUE] :
     o \in {<<"rig", 0>>, <<"hero", 1>>}}

\* the arrangements in which the parent of a component is listed before it
OrderedLinks(n) ==
    {l \in [1..n -> Links(n)] : \A i \in 1..n : l[i] \in Links(i - 1)}

Reverse(s) == [i \in 1..Len(s) |-> s[Len(s) + 1 - i]]

\* a mapping without key k
Without(f, k) == [x \in (DOMAIN f) \ {k} |-> f[x]]

\* the documents made from an exported one by hand: components_list reversed
\* (children listed first), the entry of the last listed component removed
\* from components_dict, the option "mode" removed from the root values
Malformations(T) ==
    {[T EXCEPT !.components_list = Reverse(@)],
     [T EXCEPT !.guide_root.param_values = Without(@, "mode")]}
    \cup {[T EXCEPT !.components_dict =
                        Without(@, T.components_list[Len(T.components_list)])] :
             x \in {1} \cap DOMAIN T.components_list}

\* the templates of up to m components: those the exporter writes, and the
\* documents malformed from them
Templates(m) ==
    UNION {UNION {{T} \cup Malformations(T) :
                     T \in {MkTemplate(n, links, ps, opts) :
                                links \in OrderedLinks(n),
                                ps \in [1..n -> {0, 1}],
                                opts \in RootOptions}} :
           n \in 0..m}

\* every parent is listed before its children
ParentsFirst(T) ==
    \A i \in DOMAIN T.components_list :
        T.components_list[i] \in DOMAIN T.components_dict =>
            LET pn == T.components_dict[T.components_list[i]].parent_fullName IN
            pn /= None => \E j \in 1..(i-1) : T.components_list[j] = pn

-----------------------------------------------------------------------------
(* Specification of the template round trip: load, draw or not, export *)

InitTemplate ==
    /\ paramNames = RigNew.reg.paramNames
    /\ paramDefs = RigNew.reg.paramDefs
    /\ values = RigNew.reg.values
    /\ valid = TRUE
    /\ model = Unset
    /\ controllers = EmptyMap
    /\ components = EmptyMap
    /\ componentsIndex = <<>>
    /\ scene = EmptyScene
    /\ pc = "fresh"
    /\ input \in Templates(MaxComps)
    /\ output = NoOutput
    /\ log = <<>>
    /\ frame = NoFrame

\* rig.set_from_dict(T)
TLoad ==
    /\ pc = "fresh"
    /\ \E order \in SetToSeqs(DOMAIN paramDefs) :
           LET r == set_from_dict(RigOf, input, order) IN
           /\ SetRig(r.rig)
           /\ pc' = IF r.err = "ok" THEN "loaded" ELSE "loadError"
           /\ output' = [err |-> r.err, doc |-> None, selected |-> <<>>]
    /\ UNCHANGED <<scene, input, log, frame>>

\* rig.draw_guide()
TDraw ==
    /\ pc = "loaded"
    /\ LET r == draw_guide(RigOf, scene, NoPartial, NoNode) IN
       /\ SetRig(r.rig)
       /\ scene' = r.sc
       /\ log' = r.log
    /\ pc' = "drawn"
    /\ UNCHANGED <<input, output, frame>>

\* rig.get_guide_template_dict(), with nothing or the model root selected
TExport ==
    /\ pc \in {"loaded", "drawn"}
    /\ \E selected \in {<<>>} \cup {<<n>> : n \in {model} \cap DOMAIN scene} :
           LET r == get_guide_template_dict(RigOf, scene, selected) IN
           output' = [err |-> r.err, doc |-> r.doc, selected |-> selected]
    /\ pc' = "exported"
    /\ RigUnchanged
    /\ UNCHANGED <<scene, input, log, frame>>

NextTemplate == TLoad \/ TDraw \/ TExport

SpecTemplate == InitTemplate /\ [][NextTemplate]_vars

-----------------------------------------------------------------------------
(* Claims checked under SpecTemplate *)

\* components_list, parent links and parameter values of document D are
\* those of template T
SameAsTemplate(T, D) ==
    /\ D.components_list = T.components_list
    /\ DOMAIN D.components_dict = Range(T.components_list)
    /\ \A k \in Range(T.components_list) :
           /\ D.components_dict[k].parent_fullName = T.components_dict[k].parent_fullName
           /\ D.components_dict[k].parent_localName = T.components_dict[k].parent_localName
           /\ D.components_dict[k].param_values = T.components_dict[k].param_values
    /\ D.guide_root.param_values = T.guide_root.param_values

\* C1 as stated: for any template T listing every parent before its
\* children, the export that follows set_from_dict(T) on a fresh graph
\* yields a document with the components_list, the parent links and the
\* parameter values of T.
C1_RoundTripAsStated ==
    (pc = "exported" /\ ParentsFirst(input))
        => (output.err = "ok" /\ SameAsTemplate(input, output.doc))

\* C1 amended: for such a T, the export that follows set_from_dict(T) on a
\* fresh graph raises AttributeError while the graph has no model root
\* (set_from_dict assigns none), and IndexError when the controllers
\* container exists and nothing is selected; once the guide has been drawn
\* and a node is selected it yields a document with the components_list,
\* the parent links and the parameter values of T.
C1_RoundTripOnceDrawn ==
    (pc = "exported" /\ ParentsFirst(input))
        => /\ (log = <<>>) => output.err = "AttributeError"
           /\ (log /= <<>> /\ output.selected = <<>>) => output.err = "IndexError"
           /\ (log /= <<>> /\ output.selected /= <<>>)
                  => (output.err = "ok" /\ SameAsTemplate(input, output.doc))

\* C1 witness: a drawn guide of three components, two of them with a
\* parent, and options that differ from the defaults, has been exported
C1_Witness ==
    /\ pc = "exported"
    /\ ParentsFirst(input)
    /\ output.err = "ok"
    /\ Len(input.components_list) = 3
    /\ Cardinality({k \in Range(input.components_list) :
                        input.components_dict[k].parent_fullName /= None}) = 2
    /\ input.guide_root.param_values["rig_name"] = "hero"
    /\ \E k \in Range(input.components_list) :
           input.components_dict[k].param_values.p = 1

\* the three malformations of a template
MissingEntry(T) == \E k \in Range(T.components_list) : k \notin DOMAIN T.components_dict

MissingOption(T) ==
    \E n \in DOMAIN RigNew.reg.paramDefs : n \notin DOMAIN T.guide_root.param_values

UnloadedParent(T) == ~ParentsFirst(T)

Malformed(T) == MissingEntry(T) \/ MissingOption(T) \/ UnloadedParent(T)

\* the first position of components_list whose entry is missing or whose
\* parent is not listed before it
FailAt(T) ==
    CHOOSE i \in DOMAIN T.components_list :
        /\ ~ParentsFirst([T EXCEPT !.components_list = Take(@, i)])
           \/ T.components_list[i] \notin DOMAIN T.components_dict
        /\ \A j \in 1..(i-1) :
               /\ ParentsFirst([T EXCEPT !.components_list = Take(@, j)])
               /\ T.components_list[j] \in DOMAIN T.components_dict

\* C14 as stated: set_from_dict on a malformed template (a listed name
\* missing from components_dict, a registered parameter missing from
\* param_values, a parent_fullName naming no already-loaded component)
\* raises an error and leaves components, componentsIndex and the parameter
\* values as they were before the call.
C14_LoadLeavesGraph ==
    (pc /= "fresh" /\ Malformed(input))
        => /\ pc = "loadError"
           /\ components = EmptyMap
           /\ componentsIndex = <<>>
           /\ values = RigNew.reg.values

\* C14 amended: set_from_dict on a malformed template raises KeyError and
\* the load stops there, keeping what it had assigned.  When a root
\* parameter is missing, every parameter holds its old or its template
\* value and no component is loaded; otherwise the parameters hold the
\* template values, componentsIndex is the whole components_list and
\* components holds the entries listed before the failing one, and the
\* failing one too when only its parent is unknown.
C14_LoadStopsAtError ==
    (pc /= "fresh" /\ Malformed(input))
        => /\ pc = "loadError"
           /\ output.err = "KeyError"
           /\ IF MissingOption(input)
              THEN /\ components = EmptyMap
                   /\ componentsIndex = <<>>
                   /\ \A n \in DOMAIN values :
                          \/ values[n] = RigNew.reg.values[n]
                          \/ /\ n \in DOMAIN input.guide_root.param_values
                             /\ values[n] = input.guide_root.param_values[n]
              ELSE /\ values = input.guide_root.param_values
                   /\ componentsIndex = input.components_list
                   /\ DOMAIN components =
                          (Range(Take(input.components_list, FailAt(input)))
                              \cap DOMAIN input.components_dict)

\* C14 witness: a load has failed on an unknown parent after it replaced
\* the root parameters and componentsIndex and registered two components
C14_Witness ==
    /\ pc = "loadError"
    /\ UnloadedParent(input)
    /\ ~MissingOption(input)
    /\ values /= RigNew.reg.values
    /\ Len(componentsIndex) = 3
    /\ Cardinality(DOMAIN components) = 2

-----------------------------------------------------------------------------
(* Specification of draw_guide on a graph loaded from a template *)

\* a scene that holds a guide already: its model root "guide" with the
\* controllers container and one component x_C0, and beside it a transform
\* "grp" that belongs to no guide
ExistingScene ==
    LET sc1 == initialHierarchy(RigNew, EmptyScene)
        x == CompSetFromDict(CompNew,
                 [param_values |-> CompValues("x", 0), child_components |-> <<>>])
        sc2 == CompDrawScene(sc1, x, 1)
    IN AddNode(sc2, Node(NoNode, <<"grp">>, EmptyMap, None))

\* the templates of up to m components the exporter writes, options and
\* parameters at their defaults
DrawTemplates(m) ==
    UNION {{MkTemplate(n, links, [i \in 1..n |-> 0], RigNew.reg.values) :
                links \in OrderedLinks(n)} : n \in 0..m}

\* a name no component of the graph carries
Unregistered == MkFullName("z")

RECURSIVE SubsetSeq(_, _)
\* the members of S that occur in sequence s, in the order of s
SubsetSeq(s, S) ==
    IF s = <<>> THEN <<>>
    ELSE (IF Head(s) \in S THEN <<Head(s)>> ELSE <<>>) \o SubsetSeq(Tail(s), S)

SeedNames(m) == [i \in 1..(m + 1) |->
                    IF i <= m THEN MkFullName(CompNames[i]) ELSE Unregistered]

PartialArgs(m) ==
    {NoPartial} \cup
    {Partial(SubsetSeq(SeedNames(m), S)) : S \in SUBSET Range(SeedNames(m))}

InitDraw ==
    /\ \E T \in DrawTemplates(MaxComps) :
           LET rig == set_from_dict(RigNew, T, RigNew.reg.paramNames).rig IN
           /\ paramNames = rig.reg.paramNames
           /\ paramDefs = rig.reg.paramDefs
           /\ values = rig.reg.values
           /\ valid = rig.reg.valid
           /\ model = rig.model
           /\ controllers = rig.controllers
           /\ components = rig.components
           /\ componentsIndex = rig.componentsIndex
    /\ scene \in {EmptyScene, ExistingScene}
    /\ pc = "loaded"
    /\ input \in {[partial |-> pa, initParent |-> ip] :
                      pa \in PartialArgs(MaxComps), ip \in {NoNode} \cup DOMAIN scene}
    /\ output = [pair |-> FALSE, names |-> None, given |-> FALSE, idx |-> <<>>]
    /\ log = <<>>
    /\ frame = NoFrame

\* rig.draw_guide(partial, initParent)
DDraw ==
    /\ pc = "loaded"
    /\ LET r == draw_guide(RigOf, scene, input.partial, input.initParent) IN
       /\ SetRig(r.rig)
       /\ scene' = r.sc
       /\ log' = r.log
       /\ output' = r.ret
       /\ pc' = IF r.ret.pair THEN "done" ELSE "refused"
    /\ UNCHANGED <<input, frame>>

NextDraw == DDraw

SpecDraw == InitDraw /\ [][NextDraw]_vars

-----------------------------------------------------------------------------
(* Claims checked under SpecDraw *)

Draws == {i \in DOMAIN log : log[i].op = "draw"}

DrawnNames == {log[i].name : i \in Draws}

RECURSIVE ChildClosure(_)
\* the registered components reachable from S through child_components
ChildClosure(S) ==
    LET S1 == S \cup {c \in DOMAIN components :
                          \E s \in S : c \in Range(components[s].child_components)}
    IN IF S1 = S THEN S ELSE ChildClosure(S1)

Seeds == Range(input.partial.names)

\* the node a seed is to be drawn under
SeedParent == IF input.initParent /= NoNode THEN input.initParent ELSE model

\* the node of attachment point `local` of the component drawn at `root`
AttachNode(sc, root, local) ==
    IF local = <<"root">> THEN root
    ELSE IF \E n \in DOMAIN sc : sc[n].parent = root /\ sc[n].local = local
    THEN CHOOSE n \in DOMAIN sc : sc[n].parent = root /\ sc[n].local = local
    ELSE NoNode

\* C3: a completed draw_guide(partial=S) with a non-empty seed list S draws
\* exactly the registered components named in S and the components
\* reachable from them through child_components, and no other component.
C3_PartialDrawsClosure ==
    (pc = "done" /\ Truthy(input.partial))
        => DrawnNames = ChildClosure(Seeds \cap DOMAIN components)

\* C3 witness: a partial build with one registered seed has drawn the seed
\* and a component that is no seed but a recorded child, and has left a
\* registered component out
C3_Witness ==
    /\ pc = "done"
    /\ Truthy(input.partial)
    /\ Cardinality(Seeds \cap DOMAIN components) = 1
    /\ Cardinality(DrawnNames) = 2
    /\ \E c \in DrawnNames : c \notin Seeds
    /\ \E c \in DOMAIN components : c \notin DrawnNames

\* no element occurs twice in sequence s
NoRepeat(s) == \A i, j \in DOMAIN s : s[i] = s[j] => i = j

\* the names of the components drawn, in draw order
DrawnSeq == [k \in 1..Cardinality(Draws) |->
                log[CHOOSE i \in Draws : Cardinality({j \in Draws : j <= i}) = k].name]

\* C15: draw_guide(partial=S) returns a name list that is exactly the set of
\* the components drawn in this pass, no name that was not drawn and no name
\* twice, and one index per drawn component in draw order.
C15_ReturnsDrawnNames ==
    (pc = "done" /\ Truthy(input.partial))
        => /\ Range(output.names) = DrawnNames
           /\ NoRepeat(output.names)
           /\ output.idx = [k \in DOMAIN DrawnSeq |->
                                components[DrawnSeq[k]].values.comp_index]

\* the part of C15 that holds: every drawn component is named, and the
\* indices are those of the drawn components in draw order
C15_IndicesOfDrawn ==
    (pc = "done" /\ Truthy(input.partial))
        => /\ DrawnNames \subseteq Range(output.names)
           /\ output.idx = [k \in DOMAIN DrawnSeq |->
                                components[DrawnSeq[k]].values.comp_index]

\* C4: in a partial build every seed is drawn under initParent when one is
\* given and under the model root otherwise, whatever its parentComponent.
C4_SeedsReRooted ==
    (pc = "done" /\ Truthy(input.partial))
        => \A i \in Draws :
               log[i].name \in Seeds
                   => /\ log[i].parent = SeedParent
                      /\ scene[log[i].root].parent = SeedParent

\* C4 witness: the only seed has a parentComponent that was not requested,
\* and it alone has been drawn, under the model root
C4_Witness ==
    /\ pc = "done"
    /\ Truthy(input.partial)
    /\ input.initParent = NoNode
    /\ \E i \in Draws :
           /\ DrawnNames = {log[i].name}
           /\ log[i].name \in Seeds
           /\ components[log[i].name].parentComponent /= None
           /\ log[i].parent = model

\* C5: in a full build (no seeds, no initParent) every component with a
\* parentComponent is drawn under the attachment point parentLocalName of
\* that parent, and every component without one under the model root.
C5_FullBuildParents ==
    (pc = "done" /\ ~Truthy(input.partial) /\ input.initParent = NoNode)
        => \A i \in Draws :
               LET g == components[log[i].name] IN
               IF g.parentComponent /= None
               THEN log[i].parent = AttachNode(scene, components[g.parentComponent].root,
                                               g.parentLocalName)
               ELSE log[i].parent = model

-----------------------------------------------------------------------------
(* Specification of the reconciliation pass: setFromSelection and
   setFromHierarchy on a scene that holds guides, step by step *)

RemoveAttr(sc, n, a) ==
    [sc EXCEPT ![n].attrs = [b \in DOMAIN sc[n].attrs \ {a} |-> sc[n].attrs[b]]]

\* the guide draw_guide() makes of template T, drawn into scene sc
DrawnGuide(T, sc) ==
    draw_guide(set_from_dict(RigNew, T, RigNew.reg.paramNames).rig, sc,
               NoPartial, NoNode).sc

\* the component roots of a scene, in the order they were created
CompRoots(sc) == SortedSeq({n \in DOMAIN sc : hasAttr(sc, n, "comp_type")})

\* the guide g with the shape of a controller stored in its container
WithController(g) ==
    AddNode(g, Node(findChild(g, 1, ControllersOrg),
                    <<"ctl", "_", "controlBuffer">>, EmptyMap, None))

\* the scenes made of the drawn guide g of template T: g; g with a
\* controller shape; g built twice, side by side; g with an option missing
\* on its model root; g with a parameter missing on its first component root
GuideVariants(T, g) ==
    {g, WithController(g), DrawnGuide(T, g), RemoveAttr(g, 1, "mode")} \cup
    {RemoveAttr(g, CompRoots(g)[1], "p") : x \in {1} \cap DOMAIN CompRoots(g)}

\* the scenes of the reconciliation
GuideScenes(m) ==
    UNION {GuideVariants(T, DrawnGuide(T, EmptyScene)) : T \in DrawTemplates(m)}

\* the guide g with the comp_type of one component root changed to a type
\* no guide module exists for
UnresolvedVariants(g) ==
    {[g EXCEPT ![CompRoots(g)[i]].attrs["comp_type"] = "mystery"] :
         i \in DOMAIN CompRoots(g)}

UnresolvedScenes(m) ==
    UNION {UnresolvedVariants(DrawnGuide(T, EmptyScene)) : T \in DrawTemplates(m)}

\* the nodes of the first guide of the scene
FirstGuide(sc) == {1} \cup Descendants(sc, 1)

\* the calls of the reconciliation on scene sc
Calls(sc) ==
    {[op |-> "setFromHierarchy", root |-> r, branch |-> b, selection |-> <<>>] :
         r \in FirstGuide(sc), b \in BOOLEAN}
    \cup
    {[op |-> "setFromSelection", root |-> NoNode, branch |-> FALSE, selection |-> sel] :
         sel \in {q \in UNION {[1..k -> {n \in FirstGuide(sc) :
                                            \/ hasAttr(sc, n, "ismodel")
                                            \/ hasAttr(sc, n, "comp_type")}] :
                               k \in 0..2} :
                      \A i, j \in DOMAIN q : q[i] = q[j] => i = j}}

\* the links of the graph: name -> [parent, local]
LinksOf(comps) ==
    [k \in DOMAIN comps |-> [parent |-> comps[k].parentComponent,
                             local |-> comps[k].parentLocalName]]

NoResult == [ret |-> TRUE, keys |-> {}, index |-> <<>>, links |-> EmptyMap]

Init ==
    /\ paramNames = RigNew.reg.paramNames
    /\ paramDefs = RigNew.reg.paramDefs
    /\ values = RigNew.reg.values
    /\ valid = TRUE
    /\ model = Unset
    /\ controllers = EmptyMap
    /\ components = EmptyMap
    /\ componentsIndex = <<>>
    /\ scene \in GuideScenes(MaxComps) \cup UnresolvedScenes(MaxComps)
    /\ pc = "idle"
    /\ input \in Calls(scene)
    /\ output = NoResult
    /\ log = <<>>
    /\ frame = NoFrame

\* the head of setFromHierarchy(root, branch): the model and the root
HierarchyBegin(root, branch, todo) ==
    /\ model' = Top(scene, root)
    /\ frame' = [root |-> GuideRootOf(scene, Top(scene, root), root),
                 branch |-> branch, params |-> DOMAIN paramDefs,
                 stack |-> <<>>, todo |-> todo]
    /\ pc' = "options"
    /\ UNCHANGED <<paramNames, paramDefs, values, valid, controllers,
                   components, componentsIndex, scene, input, output, log>>

\* rig.setFromHierarchy(root, branch) is called
SetFromHierarchyCall ==
    /\ pc = "idle"
    /\ input.op = "setFromHierarchy"
    /\ HierarchyBegin(input.root, input.branch, <<>>)

\* rig.setFromSelection() is called
SetFromSelectionCall ==
    /\ pc = "idle"
    /\ input.op = "setFromSelection"
    /\ IF input.selection = <<>>
       THEN /\ valid' = FALSE
            /\ output' = [output EXCEPT !.ret = FALSE]
            /\ pc' = "done"
            /\ UNCHANGED frame
       ELSE /\ frame' = [frame EXCEPT !.todo = input.selection]
            /\ pc' = "select"
            /\ UNCHANGED <<valid, output>>
    /\ UNCHANGED <<paramNames, paramDefs, values, model, controllers,
                   components, componentsIndex, scene, input, log>>

\* the loop of setFromSelection over the selected nodes
SelectionNext ==
    /\ pc = "select"
    /\ IF frame.todo = <<>>
       THEN /\ pc' = "done"
            /\ UNCHANGED <<paramNames, paramDefs, values, valid, model,
                           controllers, components, componentsIndex, scene,
                           input, output, log, frame>>
       ELSE HierarchyBegin(Head(frame.todo),
                           hasAttr(scene, Head(frame.todo), "ismodel"),
                           Tail(frame.todo))

\* one iteration of setParamDefValuesFromProperty(self.model); the items of
\* paramDefs come in no particular order
OptionStep ==
    /\ pc = "options"
    /\ \E n \in frame.params :
           LET reg == setParamDefValuesFromPropertyBody(RigOf.reg, scene, model, n) IN
           /\ SetRig([RigOf EXCEPT !.reg = reg])
           /\ frame' = [frame EXCEPT !.params = @ \ {n}]
    /\ UNCHANGED <<scene, pc, input, output, log>>

\* the options are read: the controllers are collected and
\* findComponentRecursive(root, branch) is called
OptionsEnd ==
    /\ pc = "options"
    /\ frame.params = {}
    /\ frame' = [frame EXCEPT
                    !.stack = <<[node |-> frame.root, branch |-> frame.branch]>>]
    /\ pc' = "find"
    /\ SetRig(GetControllers(RigOf, scene, findChild(scene, model, ControllersOrg)))
    /\ UNCHANGED <<scene, input, output, log>>

\* one call of findComponentRecursive
FindStep ==
    /\ pc = "find"
    /\ frame.stack /= <<>>
    /\ LET r == findComponentBody(RigOf, scene, frame.stack) IN
       /\ SetRig(r.rig)
       /\ frame' = [frame EXCEPT !.stack = r.stack]
       /\ pc' = IF r.raised THEN "raised" ELSE pc
    /\ UNCHANGED <<scene, input, output, log>>

\* the search is over: the parenting pass and the end of setFromHierarchy
ParentingStep ==
    /\ pc = "find"
    /\ frame.stack = <<>>
    /\ SetRig(Parenting(RigOf, scene))
    /\ pc' = IF input.op = "setFromSelection" THEN "select" ELSE "done"
    /\ UNCHANGED <<scene, input, output, log, frame>>

\* rig.setFromHierarchy(root, branch) is called once more on the same graph
\* and the same scene; output keeps the result of the first call
SetFromHierarchyAgain ==
    /\ pc = "done"
    /\ input.op = "setFromHierarchy"
    /\ \E order \in SetToSeqs(DOMAIN paramDefs) :
           SetRig(setFromHierarchy(RigOf, scene, input.root, input.branch, order))
    /\ output' = [ret |-> TRUE, keys |-> DOMAIN components,
                  index |-> componentsIndex, links |-> LinksOf(components)]
    /\ pc' = "again"
    /\ UNCHANGED <<scene, input, log, frame>>

Next ==
    \/ SetFromHierarchyCall
    \/ SetFromSelectionCall
    \/ SelectionNext
    \/ OptionStep
    \/ OptionsEnd
    \/ FindStep
    \/ ParentingStep
    \/ SetFromHierarchyAgain

Spec == Init /\ [][Next]_vars

-----------------------------------------------------------------------------
(* Claims checked under Spec *)

\* a call of setFromHierarchy has returned with the graph valid
DiscoveredValid == pc = "done" /\ input.op = "setFromHierarchy" /\ valid

\* the discovered components that expose the node n as an attachment point
Exposers(n) ==
    {p \in DOMAIN components :
        \E l \in DOMAIN getObjects3(scene, components[p]) :
            getObjects3(scene, components[p])[l] = n}

\* C6: after the parent-resolution pass of setFromHierarchy on a valid
\* graph, every discovered component whose scene parent is an attachment
\* point of a discovered component p has parentComponent p and the local
\* name of that point as parentLocalName, also when the name of the scene
\* parent does not resolve; every other component has no parentComponent.
C6_ParentsResolved ==
    DiscoveredValid =>
        \A c \in DOMAIN components :
            LET sp == getParent(scene, components[c].root) IN
            IF sp /= NoNode /\ Exposers(sp) /= {}
            THEN /\ components[c].parentComponent \in Exposers(sp)
                 /\ components[c].parentLocalName = scene[sp].local
            ELSE components[c].parentComponent = None

\* the naming convention predicts parentage: every guide element carries,
\* as its name, the full name of the component it belongs to and its own
\* local name
Conventional(sc) ==
    \A n \in DOMAIN sc :
        (hasAttr(sc, n, "isGearGuide") /\ OwnerRoot(sc, n) /= NoNode
         /\ \A a \in CompParamNames : hasAttr(sc, OwnerRoot(sc, n), a))
            => NameOf(sc, n) = getName(FullNameOf(sc[OwnerRoot(sc, n)].attrs),
                                       sc[n].local)

RECURSIVE ForcedFallback(_, _, _, _)
\* the parenting loop with the except branch taken for every name
ForcedFallback(comps, sc, index, i) ==
    IF i > Len(index) THEN comps
    ELSE ForcedFallback(ParentingFallback(comps, sc, index, index[i]),
                        sc, index, i + 1)

\* the graph as the search leaves it: no component has a parent yet
Unlinked(comps) ==
    [k \in DOMAIN comps |-> [comps[k] EXCEPT !.parentComponent = None,
                                             !.parentLocalName = None]]

\* C7: on a scene in which the naming convention predicts parentage, the
\* links setFromHierarchy resolves by the name of the scene parent are the
\* links the scan of the attachment points, forced for every component,
\* resolves: same parentComponent and same parentLocalName for each.
C7_FastEqualsFallback ==
    (DiscoveredValid /\ Conventional(scene)) =>
        LinksOf(components) =
            LinksOf(ForcedFallback(Unlinked(components), scene, componentsIndex, 1))

\* C7 witness: a conventional scene of three components, two of them
\* linked to a parent, one link at the attachment point "tip"
C7_Witness ==
    /\ DiscoveredValid
    /\ Conventional(scene)
    /\ Cardinality(DOMAIN components) = 3
    /\ Cardinality({c \in DOMAIN components :
                        components[c].parentComponent /= None}) = 2
    /\ \E c \in DOMAIN components : components[c].parentLocalName = <<"tip">>

RECURSIVE ReachesTop(_, _, _)
\* following the parentComponent links from c reaches a component without
\* parent in at most k steps
ReachesTop(comps, c, k) ==
    IF comps[c].parentComponent = None THEN TRUE
    ELSE IF k = 0 THEN FALSE
    ELSE ReachesTop(comps, comps[c].parentComponent, k - 1)

C9_SecondRunIdentical ==
    (pc = "again") =>
        /\ DOMAIN components = output.keys
        /\ componentsIndex = output.index
        /\ LinksOf(components) = output.links

\* C10: valid is a one-way latch: once it is false no step of
\* setFromSelection, setFromHierarchy, findComponentRecursive or
\* setParamDefValuesFromProperty sets it back to true.
C10_ValidLatch == [][(valid = FALSE) => (valid' = FALSE)]_vars

\* C10 witness: valid went false while the options were read, the search
\* has registered a component since and has calls left to make
C10_Witness ==
    /\ pc = "find"
    /\ ~valid
    /\ frame.stack /= <<>>
    /\ componentsIndex /= <<>>
    /\ \A c \in DOMAIN components : components[c].valid

-----------------------------------------------------------------------------
(* Specification of update: the guide is rebuilt beside the old tree; a
   step of the rebuild may raise *)

\* the nodes of the tree under (and with) node n
Tree(sc, n) == {n} \cup Descendants(sc, n)

InitUpdate ==
    /\ paramNames = RigNew.reg.paramNames
    /\ paramDefs = RigNew.reg.paramDefs
    /\ values = RigNew.reg.values
    /\ valid = TRUE
    /\ model = Unset
    /\ controllers = EmptyMap
    /\ components = EmptyMap
    /\ componentsIndex = <<>>
    /\ scene \in GuideScenes(MaxComps)
    /\ pc = "idle"
    /\ input \in {[sel |-> n, force |-> f] :
                     n \in {m \in FirstGuide(scene) : scene[m].parent \in {NoNode, 1}},
                     f \in BOOLEAN}
    /\ output = NoResult
    /\ log = <<>>
    /\ frame = [deleteLater |-> NoNode, name |-> None, newParentName |-> None,
                i |-> 1, oldTree |-> {}]

\* rig.update(sel, force) down to the rename of the old root
UpdateCall ==
    /\ pc = "idle"
    /\ \E order \in SetToSeqs(DOMAIN paramDefs) :
           LET r == updateHead(RigOf, scene, input.sel, input.force, order) IN
           /\ SetRig(r.rig)
           /\ scene' = r.sc
           /\ pc' = r.ret
           /\ frame' = IF r.ret = "renamed"
                       THEN [frame EXCEPT !.deleteLater = input.sel,
                                          !.name = r.name,
                                          !.oldTree = Tree(scene, input.sel)]
                       ELSE frame
    /\ UNCHANGED <<input, output, log>>

\* drawUpdate: initialHierarchy()
UpdateHierarchy ==
    /\ pc = "renamed"
    /\ scene' = initialHierarchy(RigOf, scene)
    /\ model' = NewId(scene)
    /\ frame' = [frame EXCEPT !.newParentName = NameOf(scene', model')]
    /\ pc' = "hierarchy"
    /\ UNCHANGED <<paramNames, paramDefs, values, valid, controllers,
                   components, componentsIndex, input, output, log>>

\* drawUpdate: the controllers container of the old root is moved over
UpdateControls ==
    /\ pc = "hierarchy"
    /\ LET r == drawUpdateControls(scene, model, frame.deleteLater, frame.newParentName) IN
       /\ scene' = r.sc
       /\ pc' = IF r.err = "none" THEN "drawing" ELSE "failed"
    /\ RigUnchanged
    /\ UNCHANGED <<input, output, log, frame>>

\* drawUpdate: one component is drawn in the new tree
UpdateDraw ==
    /\ pc = "drawing"
    /\ frame.i <= Len(componentsIndex)
    /\ LET r == drawUpdateBody(scene, components, model,
                               componentsIndex[frame.i], frame.newParentName) IN
       /\ scene' = r.sc
       /\ components' = r.comps
    /\ frame' = [frame EXCEPT !.i = @ + 1]
    /\ UNCHANGED <<paramNames, paramDefs, values, valid, model, controllers,
                   componentsIndex, pc, input, output, log>>

\* a host command of the rebuild raises: the creation of the new root, the
\* move of the container or the draw of a component
UpdateRaise ==
    /\ \/ pc \in {"renamed", "hierarchy"}
       \/ pc = "drawing" /\ frame.i <= Len(componentsIndex)
    /\ pc' = "failed"
    /\ RigUnchanged
    /\ UNCHANGED <<scene, input, output, log, frame>>

\* the end of update: rename of the new root, deletion of the old tree
UpdateFinish ==
    /\ pc = "drawing"
    /\ frame.i > Len(componentsIndex)
    /\ scene' = updateTail(scene, model, frame.name, frame.deleteLater)
    /\ pc' = "updated"
    /\ RigUnchanged
    /\ UNCHANGED <<input, output, log, frame>>

NextUpdate ==
    \/ UpdateCall
    \/ UpdateHierarchy
    \/ UpdateControls
    \/ UpdateDraw
    \/ UpdateRaise
    \/ UpdateFinish

SpecUpdate == InitUpdate /\ [][NextUpdate]_vars

\* C2: if update() fails after the old root has been renamed aside and
\* before the new hierarchy is completely drawn, the old root still exists
\* in the scene with all of its nodes, its controllers container included.
C2_OldTreeKept ==
    (pc = "failed") =>
        /\ frame.deleteLater \in DOMAIN scene
        /\ Tree(scene, frame.deleteLater) = frame.oldTree


\* C11: update(sel, force=False) on a model root whose reconciliation ends
\* with valid true changes nothing in the scene: no node is renamed,
\* created, re-parented or deleted.
C11_ValidUpdateKeepsScene == [][(pc' = "uptodate") => (scene' = scene)]_vars

\* C11 witness: update has returned "up to date" on a guide of three
\* components, one of them with a controller shape or not
C11_Witness ==
    /\ pc = "uptodate"
    /\ ~input.force
    /\ valid
    /\ Len(componentsIndex) = 3

\* the root of every component of the graph is in the scene under node n
AllDrawnUnder(n) ==
    \A i \in DOMAIN componentsIndex :
        /\ components[componentsIndex[i]].root \in DOMAIN scene
        /\ components[componentsIndex[i]].root \in Descendants(scene, n)

\* C12: in a successful update the old root is deleted only after every
\* component of componentsIndex has been drawn under the new root; at the
\* end the new root carries the original name of the old root and the old
\* root is no longer in the scene.
C12_OldDeletedLast ==
    /\ (frame.deleteLater /= NoNode /\ frame.deleteLater \notin DOMAIN scene)
           => (pc = "updated" /\ AllDrawnUnder(model))
    /\ (pc = "updated")
           => /\ frame.deleteLater \notin DOMAIN scene
              /\ model \in DOMAIN scene
              /\ scene[model].short = frame.name
              /\ scene[model].parent = NoNode

\* C12 witness: a forced update of a guide of three components, two of
\* them under another component, has ended
C12_Witness ==
    /\ pc = "updated"
    /\ Len(componentsIndex) = 3
    /\ Cardinality({c \in DOMAIN components :
                        scene[components[c].root].parent /= model}) = 2


-----------------------------------------------------------------------------
(* Specification of the operations on a node of the scene: update,
   duplicate and draw_guide called on any node, tagged or not *)

\* scene sc with a transform "grp" beside the guides, part of no guide
WithLoose(sc) == AddNode(sc, Node(NoNode, <<"grp">>, EmptyMap, None))

\* the graph the operation is called on: a new Rig for update and
\* duplicate, a Rig loaded from a template of one component for draw_guide
OpsRig(op) ==
    IF op = "draw_guide"
    THEN set_from_dict(RigNew,
                       MkTemplate(1, [i \in 1..1 |-> NoLink], [i \in 1..1 |-> 0],
                                  RigNew.reg.values),
                       RigNew.reg.paramNames).rig
    ELSE RigNew

\* the calls on scene sc; populated: draw_guide is also called on a graph
\* that setFromHierarchy has filled from the first guide
OpsCalls(sc) ==
    {[op |-> "update", node |-> n, flag |-> f, partial |-> NoPartial,
      populated |-> FALSE] :
         n \in DOMAIN sc, f \in BOOLEAN}
    \cup {[op |-> "duplicate", node |-> n, flag |-> f, partial |-> NoPartial,
           populated |-> FALSE] :
              n \in DOMAIN sc, f \in BOOLEAN}
    \cup {[op |-> "draw_guide", node |-> n, flag |-> FALSE, partial |-> pa,
           populated |-> g] :
              n \in DOMAIN sc, g \in BOOLEAN,
              pa \in {NoPartial, Partial(<<MkFullName(CompNames[1])>>)}}

\* the graph call c is made on
OpsGraph(c, sc) ==
    IF c.populated
    THEN setFromHierarchy(RigNew, sc, 1, TRUE, RigNew.reg.paramNames)
    ELSE OpsRig(c.op)

InitOps ==
    /\ scene \in {WithLoose(g) : g \in GuideScenes(MaxComps)}
    /\ input \in {c \in OpsCalls(scene) :
                     c.node \in FirstGuide(scene) \cup {MaxOf(DOMAIN scene)}}
    /\ paramNames = OpsGraph(input, scene).reg.paramNames
    /\ paramDefs = OpsGraph(input, scene).reg.paramDefs
    /\ values = OpsGraph(input, scene).reg.values
    /\ valid = OpsGraph(input, scene).reg.valid
    /\ model = OpsGraph(input, scene).model
    /\ controllers = OpsGraph(input, scene).controllers
    /\ components = OpsGraph(input, scene).components
    /\ componentsIndex = OpsGraph(input, scene).componentsIndex
    /\ pc = "idle"
    /\ output = NoResult
    /\ log = <<>>
    /\ frame = NoFrame

\* the state after an operation that returned r: [rig, sc, log, ret]
OpsReturn(r) ==
    /\ SetRig(r.rig)
    /\ scene' = r.sc
    /\ log' = r.log
    /\ pc' = r.ret
    /\ UNCHANGED <<input, output, frame>>

\* rig.update(node, force)
OpsUpdate ==
    /\ pc = "idle"
    /\ input.op = "update"
    /\ \E order \in SetToSeqs(DOMAIN paramDefs) :
           OpsReturn([log |-> <<>>] @@ update(RigOf, scene, input.node, input.flag, order))

\* rig.duplicate(node, symmetrize)
OpsDuplicate ==
    /\ pc = "idle"
    /\ input.op = "duplicate"
    /\ \E order \in SetToSeqs(DOMAIN paramDefs) :
           OpsReturn(duplicate(RigOf, scene, input.node, input.flag, order))

\* draw_guide as the operations return: ret is "refused" for the early
\* return, "done" otherwise
OpsDrawResult(r) ==
    [rig |-> r.rig, sc |-> r.sc, log |-> r.log,
     ret |-> IF r.ret.pair THEN "done" ELSE "refused"]

\* rig.draw_guide(partial, initParent=node)
OpsDraw ==
    /\ pc = "idle"
    /\ input.op = "draw_guide"
    /\ OpsReturn(OpsDrawResult(draw_guide(RigOf, scene, input.partial, input.node)))

NextOps == OpsUpdate \/ OpsDuplicate \/ OpsDraw

SpecOps == InitOps /\ [][NextOps]_vars

\* the operation of the state is called on a node that lacks the tag it
\* requires: ismodel for update, comp_type for duplicate, a guide model
\* on top for the initParent of draw_guide
Untagged ==
    /\ pc = "idle"
    /\ \/ input.op = "update" /\ ~hasAttr(scene, input.node, "ismodel")
       \/ input.op = "duplicate" /\ ~hasAttr(scene, input.node, "comp_type")
       \/ input.op = "draw_guide"
              /\ ~hasAttr(scene, Top(scene, input.node), "ismodel")

\* C13: update() on a node without the ismodel tag, duplicate() on a node
\* without the comp_type tag and draw_guide() with an initParent whose top
\* ancestor is no guide model return at once and change neither the graph
\* (components, componentsIndex, parameter values, valid, model) nor the
\* scene.
C13_UntaggedRefused ==
    [][Untagged => /\ pc' = "refused"
                   /\ UNCHANGED <<paramNames, paramDefs, values, valid, model,
                                  controllers, components, componentsIndex,
                                  scene>>]_vars

\* C13 witness: duplicate has been refused on an attachment point that is
\* no component root, in a scene that holds a guide of components
C13_Witness ==
    /\ pc = "refused"
    /\ input.op = "duplicate"
    /\ \E n \in DOMAIN scene : hasAttr(scene, n, "comp_type")
    /\ hasAttr(scene, input.node, "isGearGuide")


-----------------------------------------------------------------------------
(* Specification of the parameter registry: registrations and set operations
   on a guide whose class provides get_divisions *)

\* the longest paramNames the registrations are followed to
MaxParams == 2

ParamPool == {"a", "b"}

\* the registry part of the state
RegOf == [paramNames |-> paramNames, paramDefs |-> paramDefs,
          values |-> values, valid |-> valid]

SetReg(reg) ==
    /\ paramNames' = reg.paramNames
    /\ paramDefs' = reg.paramDefs
    /\ values' = reg.values
    /\ valid' = reg.valid

\* the property node (node 1) and a curve node (node 2): each parameter of
\* the pool has no attribute, a plain attribute, or an attribute driven by
\* the curve node
PropertyNode(S, C) ==
    [Node(NoNode, <<"props">>, [n \in S |-> <<"n">>], None)
        EXCEPT !.cnx = [n \in C |-> 2]]

PropertyScenes ==
    {AddNode(AddNode(EmptyScene, PropertyNode(S, C)),
             Node(NoNode, <<"curve">>, [x \in {"samples"} |-> <<"s1", "s2">>], None)) :
         S \in SUBSET ParamPool, C \in SUBSET ParamPool}

\* the dictionaries setParamDefValuesFromDict is called with
ValueDicts == UNION {[S -> {<<"d">>}] : S \in SUBSET ParamPool}

\* a call: the operation and its arguments
Call(op, name, value, dict, order) ==
    [op |-> op, name |-> name, value |-> value, dict |-> dict, order |-> order]

Return(ret, err) == [ret |-> ret, err |-> err]

InitParams ==
    /\ paramNames = MainInit.paramNames
    /\ paramDefs = MainInit.paramDefs
    /\ values = MainInit.values
    /\ valid = MainInit.valid
    /\ model = Unset
    /\ controllers = EmptyMap
    /\ components = EmptyMap
    /\ componentsIndex = <<>>
    /\ scene \in {sc \in PropertyScenes : DOMAIN sc[1].cnx \subseteq DOMAIN sc[1].attrs}
    /\ pc = "ready"
    /\ input = Call("none", "", None, EmptyMap, <<>>)
    /\ output = Return(TRUE, "ok")
    /\ log = <<>>
    /\ frame = NoFrame

\* what a registry operation leaves alone
ParamsFrame == UNCHANGED <<model, controllers, components, componentsIndex,
                           scene, pc, log, frame>>

\* addParam(name, "string", value)
PAddParam ==
    /\ Len(paramNames) < MaxParams
    /\ \E n \in ParamPool :
           /\ SetReg(addParam(RegOf, n, "string", <<"x">>))
           /\ input' = Call("addParam", n, <<"x">>, EmptyMap, <<>>)
    /\ output' = Return(TRUE, "ok")
    /\ ParamsFrame

\* addEnumParam(name, enum, value)
PAddEnumParam ==
    /\ Len(paramNames) < MaxParams
    /\ \E n \in ParamPool :
           /\ SetReg(addEnumParam(RegOf, n, <<"e">>))
           /\ input' = Call("addEnumParam", n, <<"e">>, EmptyMap, <<>>)
    /\ output' = Return(TRUE, "ok")
    /\ ParamsFrame

\* addFCurveParam(name, keys)
PAddFCurveParam ==
    /\ Len(paramNames) < MaxParams
    /\ \E n \in ParamPool :
           /\ SetReg(addFCurveParam(RegOf, n, <<"k">>))
           /\ input' = Call("addFCurveParam", n, <<"k">>, EmptyMap, <<>>)
    /\ output' = Return(TRUE, "ok")
    /\ ParamsFrame

\* addColorParam(name, value)
PAddColorParam ==
    /\ Len(paramNames) < MaxParams
    /\ \E n \in ParamPool :
           /\ SetReg(addColorParam(RegOf, n, <<"c">>))
           /\ input' = Call("addColorParam", n, <<"c">>, EmptyMap, <<>>)
    /\ output' = Return(TRUE, "ok")
    /\ ParamsFrame

\* setParamDefValue(name, value)
PSetValue ==
    /\ \E n \in ParamPool :
           /\ SetReg(setParamDefValue(RegOf, n, <<"y">>).reg)
           /\ output' = Return(setParamDefValue(RegOf, n, <<"y">>).ret, "ok")
           /\ input' = Call("setParamDefValue", n, <<"y">>, EmptyMap, <<>>)
    /\ ParamsFrame

\* setParamDefValuesFromDict(values_dict)
PSetFromDict ==
    /\ \E d \in ValueDicts, order \in SetToSeqs(DOMAIN paramDefs) :
           /\ SetReg(setParamDefValuesFromDict(RegOf, d, order).reg)
           /\ output' = Return(TRUE, setParamDefValuesFromDict(RegOf, d, order).err)
           /\ input' = Call("setParamDefValuesFromDict", "", None, d, order)
    /\ ParamsFrame

\* setParamDefValuesFromProperty(node), node the property node
PSetFromProperty ==
    /\ \E order \in SetToSeqs(DOMAIN paramDefs) :
           /\ SetReg(setParamDefValuesFromProperty(RegOf, scene, 1, order))
           /\ output' = Return(TRUE,
                               setParamDefValuesFromPropertyError(RegOf, scene, 1, order))
           /\ input' = Call("setParamDefValuesFromProperty", "", None, EmptyMap, order)
    /\ ParamsFrame

NextParams ==
    \/ PAddParam
    \/ PAddEnumParam
    \/ PAddFCurveParam
    \/ PAddColorParam
    \/ PSetValue
    \/ PSetFromDict
    \/ PSetFromProperty

SpecParams == InitParams /\ [][NextParams]_vars

-----------------------------------------------------------------------------
(* Claims checked under SpecParams *)

SetOps == {"setParamDefValue", "setParamDefValuesFromDict",
           "setParamDefValuesFromProperty"}

AddOps == {"addParam", "addEnumParam", "addFCurveParam", "addColorParam"}

\* the position at which the loop of the last set operation stopped: the
\* first name of input.order missing from the dictionary, or whose curve has
\* no connection; past the end when the loop finished
StoppedAt ==
    LET bad == {i \in DOMAIN input.order :
                   IF input.op = "setParamDefValuesFromDict"
                   THEN input.order[i] \notin DOMAIN input.dict
                   ELSE PropertyRaises(RegOf, scene, 1, input.order[i])}
    IN IF bad = {} THEN Len(input.order) + 1
       ELSE CHOOSE i \in bad : \A j \in bad : i <= j

\* the parameters the last operation, a set operation, has set
SetBy ==
    IF input.op = "setParamDefValue"
    THEN {n \in {input.name} : output.ret}
    ELSE {input.order[i] : i \in {j \in 1..(StoppedAt - 1) :
              input.op = "setParamDefValuesFromProperty"
                  => hasAttr(scene, 1, input.order[j])}}

\* parameter n was read from an attribute an inbound connection drives, and
\* is no curve parameter
Driven(n) ==
    /\ input.op = "setParamDefValuesFromProperty"
    /\ paramDefs[n].kind /= "fcurve"
    /\ listConnections(scene, 1, n) /= <<>>

\* C16 as stated: after any set operation (setParamDefValue,
\* setParamDefValuesFromDict, setParamDefValuesFromProperty) values[name]
\* equals paramDefs[name].value for every parameter the operation set,
\* whatever its kind (static, curve-valued, driven by a connection).
C16_ValuesMirrorDefs ==
    input.op \in SetOps
        => \A n \in SetBy : n \in DOMAIN values /\ values[n] = paramDefs[n].value

\* C16 amended: after any set operation values[name] equals
\* paramDefs[name].value for every parameter the operation set, static or
\* curve-valued, except a parameter that setParamDefValuesFromProperty
\* found driven by an inbound connection and that is no curve: for it
\* paramDefs[name].value is None and values[name] is the source node.
C16_ValuesMirrorUnlessDriven ==
    input.op \in SetOps
        => \A n \in SetBy :
               /\ n \in DOMAIN values
               /\ IF Driven(n)
                  THEN /\ paramDefs[n].value = None
                       /\ values[n] = NodeValue(listConnections(scene, 1, n)[1])
                  ELSE values[n] = paramDefs[n].value

\* C16 witness: setParamDefValuesFromProperty has read a curve parameter
\* and a parameter driven by a connection
C16_Witness ==
    /\ input.op = "setParamDefValuesFromProperty"
    /\ output.err = "ok"
    /\ Cardinality(SetBy) = 2
    /\ \E n \in SetBy : Driven(n)
    /\ \E n \in SetBy : paramDefs[n].kind = "fcurve" /\ values[n] = <<"s1", "s2">>


\* C17: after any sequence of addParam, addEnumParam, addFCurveParam,
\* addColorParam, setParamDefValue, setParamDefValuesFromDict and
\* setParamDefValuesFromProperty calls, the set of names in paramNames
\* equals the key set of paramDefs.
C17_NamesAreKeys == Range(paramNames) = DOMAIN paramDefs

\* C17 witness: a set operation has followed the registration of a color
\* parameter and of a parameter of another kind
C17_Witness ==
    /\ input.op \in SetOps
    /\ Cardinality(Range(paramNames)) = 2
    /\ \E n \in DOMAIN paramDefs : paramDefs[n].kind = "color"
    /\ \E n \in DOMAIN paramDefs : paramDefs[n].kind /= "color"

\* the step is the call addParam(name, ...) with a name already registered
AddParamAgain == input'.op = "addParam" /\ input'.name \in DOMAIN paramDefs

\* C18: addParam with a name that is already registered is rejected: the
\* existing definition and value are not overwritten and the name is not
\* added a second time to paramNames.
C18_DuplicateRejected ==
    [][AddParamAgain => UNCHANGED <<paramDefs, values, paramNames>>]_vars

\* what addParam does with a registered name: the definition and the value
\* are replaced and the name is appended once more
C18_DuplicateOverwrites ==
    [][AddParamAgain
          => /\ paramDefs'[input'.name] = [kind |-> "string", value |-> input'.value]
             /\ values'[input'.name] = input'.value
             /\ paramNames' = Append(paramNames, input'.name)]_vars

\* the step is the call setParamDefValue(name, value)
SetValueStep == input'.op = "setParamDefValue"

\* C19: setParamDefValue(name, value) with a name that is not registered
\* returns False without raising and leaves paramNames, paramDefs and
\* values unchanged; with a registered name it returns True and sets both
\* paramDefs[name].value and values[name] to value.
C19_SetValueContract ==
    [][SetValueStep
          => /\ output'.err = "ok"
             /\ IF input'.name \notin DOMAIN paramDefs
                THEN /\ output'.ret = FALSE
                     /\ UNCHANGED <<paramNames, paramDefs, values>>
                ELSE /\ output'.ret = TRUE
                     /\ paramDefs'[input'.name].value = input'.value
                     /\ input'.name \in DOMAIN values'
                     /\ values'[input'.name] = input'.value]_vars

\* C19 witness: setParamDefValue has returned False for a name that is not
\* registered, on a registry that holds another name
C19_Witness ==
    /\ input.op = "setParamDefValue"
    /\ output.ret = FALSE
    /\ input.name \notin DOMAIN paramDefs
    /\ paramNames /= <<>>

\* the value setParamDefValuesFromProperty reads for parameter n from the
\* property node
ReadValue(n) ==
    IF paramDefs[n].kind = "fcurve"
    THEN getFCurveValues(scene, listConnections(scene, 1, n)[1])
    ELSE IF listConnections(scene, 1, n) /= <<>>
    THEN NodeValue(listConnections(scene, 1, n)[1])
    ELSE scene[1].attrs[n]

\* the step is a call of setParamDefValuesFromProperty that returns, on a
\* node that lacks the attribute of a registered parameter
MissingStep ==
    /\ input'.op = "setParamDefValuesFromProperty"
    /\ output'.err = "ok"
    /\ \E n \in DOMAIN paramDefs : ~hasAttr(scene, 1, n)

\* C20: setParamDefValuesFromProperty(node), when the attribute of a
\* registered parameter is missing from the node: valid is set to false,
\* that parameter keeps its previous value, and every remaining registered
\* parameter is still read from the node.
C20_MissingAttrContinues ==
    [][MissingStep
          => /\ valid' = FALSE
             /\ \A n \in DOMAIN paramDefs :
                    IF ~hasAttr(scene, 1, n)
                    THEN /\ paramDefs'[n] = paramDefs[n]
                         /\ (n \in DOMAIN values) = (n \in DOMAIN values')
                         /\ n \in DOMAIN values => values'[n] = values[n]
                    ELSE /\ n \in DOMAIN values'
                         /\ values'[n] = ReadValue(n)]_vars

\* C20 witness: setParamDefValuesFromProperty has visited the parameter
\* whose attribute is missing first, has left it as it was, and has read
\* the other parameter from the node
C20_Witness ==
    /\ input.op = "setParamDefValuesFromProperty"
    /\ output.err = "ok"
    /\ valid = FALSE
    /\ Len(input.order) = 2
    /\ ~hasAttr(scene, 1, input.order[1])
    /\ hasAttr(scene, 1, input.order[2])
    /\ values[input.order[2]] = <<"n">>
    /\ paramDefs[input.order[1]].value = <<"x">>

\* C30: after any sequence of addParam, addEnumParam, addFCurveParam and
\* addColorParam calls the key set of values equals the set of names in
\* paramNames: every registered parameter has an entry in values.
C30_ValuesHaveEveryName ==
    input.op \in AddOps => DOMAIN values = Range(paramNames)

\* what holds of the registrations: values has an entry for every name
\* registered by addParam, addEnumParam or addFCurveParam, and for no name
\* that is not registered
C30_ValuesButColors ==
    /\ DOMAIN values \subseteq Range(paramNames)
    /\ \A n \in DOMAIN paramDefs : paramDefs[n].kind /= "color" => n \in DOMAIN values

-----------------------------------------------------------------------------
(* Further claims checked under Spec *)

\* the input is a call of setFromHierarchy
HierarchyCall == input.op = "setFromHierarchy"

\* the nodes the search of the call setFromHierarchy(root, branch) visits
Searched ==
    {GuideRootOf(scene, Top(scene, input.root), input.root)} \cup
    (IF input.branch
     THEN Descendants(scene, GuideRootOf(scene, Top(scene, input.root), input.root))
     ELSE {})

Tagged(n) == hasAttr(scene, n, "comp_type")

\* the populate step of the component guide at node n reports it invalid
InvalidRoot(n) == Tagged(n) /\ \E a \in CompParamNames : ~hasAttr(scene, n, a)

\* node n is the root of a registered component
Registered(n) ==
    \E c \in DOMAIN components :
        components[c].root = n /\ c \in Range(componentsIndex)

\* C21: during discovery, if the populate step of any single component
\* guide reports valid == false, the graph's valid becomes false; that
\* component is still registered in components and componentsIndex and
\* discovery of the remaining nodes continues.
C21_InvalidComponentLatches ==
    (pc = "done" /\ HierarchyCall /\ \E n \in Searched : InvalidRoot(n))
        => /\ valid = FALSE
           /\ \A n \in Searched : Tagged(n) => Registered(n)

\* C21 witness: the first of three components found is invalid, and the
\* two found after it are registered
C21_Witness ==
    /\ pc = "done"
    /\ HierarchyCall
    /\ Len(componentsIndex) = 3
    /\ InvalidRoot(components[componentsIndex[1]].root)
    /\ Registered(components[componentsIndex[3]].root)
    /\ valid = FALSE

\* node n is tagged with a type that resolves to no component guide
Unresolved(n) == Tagged(n) /\ getComponentGuideRaises(scene[n].attrs["comp_type"])

\* C22: during discovery, when a node is tagged with a comp_type that
\* cannot be resolved to a component guide, the subtree of that node is
\* skipped (no component below it is registered) while the components in
\* all other branches are still discovered and registered.
C22_UnresolvedSubtreeSkipped ==
    (pc \in {"done", "raised"} /\ HierarchyCall /\ \E u \in Searched : Unresolved(u))
        => \A n \in Searched :
               Tagged(n) =>
                   IF \E u \in Searched :
                          Unresolved(u) /\ n \in {u} \cup Descendants(scene, u)
                   THEN ~Registered(n)
                   ELSE Registered(n)

\* what the search does with a type that does not resolve: the call never
\* returns, the exception leaves the components found so far without
\* parent and the option "size" not computed
C22_UnresolvedRaises ==
    (pc /= "idle" /\ HierarchyCall /\ \E u \in Searched : Unresolved(u))
        => /\ pc \in {"options", "find", "raised"}
           /\ \A c \in DOMAIN components : components[c].parentComponent = None
           /\ "size" \notin DOMAIN values

\* the first position of name c in componentsIndex
FirstAt(c) == CHOOSE i \in DOMAIN componentsIndex :
                  componentsIndex[i] = c /\ \A j \in 1..(i-1) : componentsIndex[j] /= c

\* every component with a parentComponent is listed after its parent
ParentsListedFirst ==
    \A c \in DOMAIN components :
        components[c].parentComponent /= None
            => /\ components[c].parentComponent \in Range(componentsIndex)
               /\ c \in Range(componentsIndex)
               /\ FirstAt(components[c].parentComponent) < FirstAt(c)

\* C23: after setFromHierarchy, componentsIndex is a topological order of
\* the parent forest: for every component with a parentComponent, the
\* fullName of the parent occurs in componentsIndex before the fullName of
\* the component.  setFromHierarchy is called directly, or by
\* setFromSelection for each selected node.
C23_IndexIsTopological ==
    pc \in {"done", "again"} => ParentsListedFirst

\* the order holds after a call on a graph without components, and after
\* the same call made once more
C23_TopologicalFromEmpty ==
    (pc \in {"done", "again"} /\ HierarchyCall) => ParentsListedFirst

\* a chain of three components has been discovered by one call, the third
\* under the second under the first
C23_ChainDiscovered ==
    /\ pc = "done"
    /\ HierarchyCall
    /\ valid
    /\ Len(componentsIndex) = 3
    /\ components[componentsIndex[3]].parentComponent = componentsIndex[2]
    /\ components[componentsIndex[2]].parentComponent = componentsIndex[1]

\* a call of setFromSelection has returned
SelectionDone == pc = "done" /\ input.op = "setFromSelection"

\* C27: after setFromSelection over any selection of guide nodes, including
\* a node selected together with one of its ancestors or descendants,
\* componentsIndex contains no name twice and its set of names equals the
\* key set of components.
C27_SelectionIndexUnique ==
    SelectionDone
        => /\ \A i, j \in DOMAIN componentsIndex :
                  componentsIndex[i] = componentsIndex[j] => i = j
           /\ Range(componentsIndex) = DOMAIN components

\* the half of C27 that holds: the names listed are the keys registered
C27_SelectionIndexKeys ==
    SelectionDone => Range(componentsIndex) = DOMAIN components

\* C28: when discovery in setFromHierarchy ends with valid == false, the
\* parent-resolution pass is not run: every discovered component keeps
\* parentComponent == null and the derived "size" option is not computed.
C28_InvalidSkipsParenting ==
    (pc = "done" /\ HierarchyCall /\ ~valid)
        => /\ \A c \in DOMAIN components :
                  /\ components[c].parentComponent = None
                  /\ components[c].parentLocalName = None
           /\ "size" \notin DOMAIN values

\* C28 witness: a call has returned invalid with three components found,
\* one of them under an attachment point of another
C28_Witness ==
    /\ pc = "done"
    /\ HierarchyCall
    /\ ~valid
    /\ Len(componentsIndex) = 3
    /\ \E c \in DOMAIN components :
           /\ getParent(scene, components[c].root) /= NoNode
           /\ Exposers(getParent(scene, components[c].root)) /= {}

-----------------------------------------------------------------------------
(* Further claims checked under SpecDraw *)

\* the step ends as the call that returned r: same scene, same draws, same
\* component roots, same value returned
EndsAs(r) ==
    /\ scene' = r.sc
    /\ log' = r.log
    /\ components' = r.rig.components
    /\ model' = r.rig.model
    /\ output' = r.ret

\* draw_guide is about to be called with an empty seed list
EmptySeeds == pc = "loaded" /\ input.partial = Partial(<<>>)

\* C29: draw_guide called with an empty seed list behaves exactly as a full
\* build with no seed list: every component of componentsIndex is drawn,
\* and the returned pair is (None, empty index list).
C29_EmptySeedsFullBuild ==
    [][EmptySeeds
          => /\ EndsAs(draw_guide(RigOf, scene, NoPartial, input.initParent))
             /\ pc' = "done"
                    => /\ output'.names = None
                       /\ output'.idx = <<>>
                       /\ DrawnSeq' = componentsIndex]_vars

\* C29 witness: a pass with an empty seed list has drawn three components
C29_Witness ==
    /\ pc = "done"
    /\ input.partial = Partial(<<>>)
    /\ Len(componentsIndex) = 3
    /\ DrawnSeq = componentsIndex
    /\ output.names = None

\* a pass of draw_guide without initParent has returned
PassDone == pc = "done" /\ input.initParent = NoNode

\* the components the pass is to draw: all of them, or in a partial build
\* the registered seeds and the recorded children they pull in
ToDraw ==
    IF Truthy(input.partial) THEN ChildClosure(Seeds \cap DOMAIN components)
    ELSE Range(componentsIndex)

\* C25: a draw_guide pass without initParent creates the model root and the
\* controllers container before any component is drawn, then draws the
\* components in componentsIndex order, each entry at most once per pass
\* (also when a component is both a seed and a recorded child of another
\* seed), and iterates the whole of componentsIndex.
C25_PassOrder ==
    PassDone
        => /\ log[1].op = "initialHierarchy"
           /\ log[1].root = model
           /\ hasAttr(scene, model, "ismodel")
           /\ findChild(scene, model, ControllersOrg) /= NoNode
           /\ \A i \in Draws :
                  /\ i > 1
                  /\ log[i].root > findChild(scene, model, ControllersOrg)
                  /\ log[i].root > model
           /\ DrawnSeq = SubsetSeq(componentsIndex, ToDraw)

\* C25 witness: a partial build whose two seeds are a component and a
\* recorded child of it has drawn both, once each, and the last entry of
\* componentsIndex after them
C25_Witness ==
    /\ PassDone
    /\ Len(input.partial.names) = 2
    /\ input.partial.names[1] \in DOMAIN components
    /\ input.partial.names[2] \in Range(components[input.partial.names[1]].child_components)
    /\ Len(componentsIndex) = 3
    /\ componentsIndex[3] \in DrawnNames \ Seeds
    /\ DrawnSeq = componentsIndex

-----------------------------------------------------------------------------
(* Further claims checked under SpecOps *)

\* the step is a duplicate() of a component subtree that draws
DuplicateStep == pc = "idle" /\ input.op = "duplicate" /\ pc' = "done"

\* the step is another build operation: update() or draw_guide()
OtherBuildStep == pc = "idle" /\ input.op \in {"update", "draw_guide"}

\* C26: in duplicate() of a component subtree, every component of the
\* reconciled subtree has root == null at the moment its draw is invoked,
\* so it is drawn as a new node instead of reusing the original; no build
\* operation other than duplicate() clears the root of a component.
C26_DuplicateClearsRoots ==
    [][/\ DuplicateStep
          => /\ Len(log') = Len(componentsIndex')
             /\ \A i \in DOMAIN log' :
                    /\ log'[i].name = componentsIndex'[i]
                    /\ log'[i].rootBefore = NoNode
                    /\ log'[i].root \notin DOMAIN scene
                    /\ log'[i].root \in DOMAIN scene'
                    /\ components'[log'[i].name].root = log'[i].root
       /\ OtherBuildStep
          => \A c \in DOMAIN components :
                 components[c].root /= NoNode
                     => c \in DOMAIN components' /\ components'[c].root /= NoNode]_vars

\* C26 witness: duplicate() has drawn a subtree of two components, each
\* with its root cleared when its draw was invoked
C26_Witness ==
    /\ pc = "done"
    /\ input.op = "duplicate"
    /\ Len(log) = 2
    /\ \A i \in DOMAIN log : log[i].rootBefore = NoNode
    /\ components[componentsIndex[2]].parentComponent = componentsIndex[1]

\* draw_guide has been called on a graph whose components had a root
C26_DrawOnPopulated ==
    /\ pc = "done"
    /\ input.op = "draw_guide"
    /\ input.populated
    /\ Len(componentsIndex) = 3
    /\ \A c \in DOMAIN components : components[c].root /= NoNode

-----------------------------------------------------------------------------
(* Specification of HelperSlots.runStep: the attempts of one custom step,
   the answers to the failure dialog and the retries; the host keeps the
   changes of each attempt as one chunk of its undo queue, kept in scene *)

\* the deepest recursion of runStep the retries are followed to
MaxRetries == 3

Answers == {"Continue", "Stop Build", "Try Again!"}

\* the step files: a script that defines the class CustomShifterStep, and a
\* simple script
StepFiles == {[path |-> <<"a">>, class |-> TRUE], [path |-> <<"b">>, class |-> FALSE]}

\* "with pm.UndoChunk()": the changes of attempt number k of step f, which
\* ended with an exception or not, as one chunk of the undo queue
UndoChunk(f, k, failed) == [step |-> f.path, attempt |-> k, failed |-> failed]

\* pm.undo() inside try/except: the last chunk is taken back; with nothing
\* to undo the exception is passed over
undo(queue) == IF queue = <<>> THEN queue ELSE SubSeq(queue, 1, Len(queue) - 1)

\* what runStep returns for the answer cont of the dialog, "retry" standing
\* for the branch that calls runStep again
AnswerReturn(cont) ==
    IF cont = "Stop Build" THEN "True"
    ELSE IF cont = "Try Again!" THEN "retry"
    ELSE "False"

\* a retry branch that stops the build whatever the retry returned
AfterRetry_Stop(inception) == "True"

\* "if inception: return True", else the function ends and returns None
AfterRetry(inception) == IF inception = "True" THEN "True" ELSE "None"

InitStep ==
    /\ paramNames = MainInit.paramNames
    /\ paramDefs = MainInit.paramDefs
    /\ values = MainInit.values
    /\ valid = MainInit.valid
    /\ model = Unset
    /\ controllers = EmptyMap
    /\ components = EmptyMap
    /\ componentsIndex = <<>>
    /\ scene \in {<<>>, <<UndoChunk([path |-> <<"earlier">>], 0, FALSE)>>}
    /\ pc = "call"
    /\ input \in {[step |-> f, queue |-> scene] : f \in StepFiles}
    /\ output = [ret |-> "none", customStepDic |-> {}]
    /\ log = <<>>
    /\ frame = [depth |-> 0]

StepFrame == UNCHANGED <<paramNames, paramDefs, values, valid, model,
                         controllers, components, componentsIndex, input>>

\* the try block runs to its end: the step is loaded and run, a step class
\* is stored in customStepDic; the function ends and returns None
StepSucceeds ==
    /\ pc = "call"
    /\ scene' = Append(scene, UndoChunk(input.step, frame.depth, FALSE))
    /\ output' = [ret |-> "None",
                  customStepDic |-> IF input.step.class
                                    THEN output.customStepDic \cup {input.step.path}
                                    ELSE output.customStepDic]
    /\ log' = log \o <<"run", "succeed">>
    /\ pc' = "return"
    /\ UNCHANGED frame
    /\ StepFrame

\* the try block raises: the error is displayed and the dialog opened
StepFails ==
    /\ pc = "call"
    /\ scene' = Append(scene, UndoChunk(input.step, frame.depth, TRUE))
    /\ log' = log \o <<"run", "fail">>
    /\ pc' = "confirmBox"
    /\ UNCHANGED <<output, frame>>
    /\ StepFrame

\* the user answers "Continue" or "Stop Build": runStep returns
StepAnswer ==
    /\ pc = "confirmBox"
    /\ \E cont \in Answers \ {"Try Again!"} :
           /\ output' = [output EXCEPT !.ret = AnswerReturn(cont)]
           /\ log' = Append(log, cont)
    /\ pc' = "return"
    /\ UNCHANGED <<scene, frame>>
    /\ StepFrame

\* the user answers "Try Again!": undo, then runStep calls itself
StepTryAgain ==
    /\ pc = "confirmBox"
    /\ frame.depth < MaxRetries
    /\ AnswerReturn("Try Again!") = "retry"
    /\ scene' = undo(scene)
    /\ log' = log \o <<"Try Again!", "undo">>
    /\ frame' = [depth |-> frame.depth + 1]
    /\ pc' = "call"
    /\ UNCHANGED output
    /\ StepFrame

\* a call made by a retry returns to the retry branch of its caller
StepUnwind ==
    /\ pc = "return"
    /\ frame.depth > 0
    /\ output' = [output EXCEPT !.ret = AfterRetry(output.ret)]
    /\ frame' = [depth |-> frame.depth - 1]
    /\ UNCHANGED <<scene, log, pc>>
    /\ StepFrame

\* the first call returns to the build
StepReturn ==
    /\ pc = "return"
    /\ frame.depth = 0
    /\ pc' = "returned"
    /\ UNCHANGED <<scene, output, log, frame>>
    /\ StepFrame

NextStep ==
    \/ StepSucceeds
    \/ StepFails
    \/ StepAnswer
    \/ StepTryAgain
    \/ StepUnwind
    \/ StepReturn

SpecStep == InitStep /\ [][NextStep]_vars

-----------------------------------------------------------------------------
(* Claims checked under SpecStep *)

\* C24: runStep reports stop-requested (returns True) only if the user
\* answered "Stop Build" to a failure of the step, directly or at some
\* retry; each "Try Again!" answer undoes the failed attempt and then
\* re-runs the same step; a step that succeeds, or whose failure is answered
\* with "Continue", does not request a stop.
C24_StopOnlyOnStopBuild ==
    /\ pc = "returned"
           => /\ output.ret = "True" => Last(log) = "Stop Build"
              /\ Last(log) \in {"succeed", "Continue"} => output.ret /= "True"
              /\ \E failed \in BOOLEAN :
                     scene = Append(input.queue,
                                    UndoChunk(input.step,
                                              Cardinality({i \in DOMAIN log :
                                                              log[i] = "undo"}),
                                              failed))
    /\ \A i \in DOMAIN log :
           log[i] = "Try Again!"
               => /\ i + 1 \in DOMAIN log /\ log[i + 1] = "undo"
                  /\ i + 2 \in DOMAIN log => log[i + 2] = "run"
                  /\ i + 2 \notin DOMAIN log => pc = "call"

\* C24 witness: the step failed twice, was tried again twice and then
\* succeeded; runStep has returned without requesting a stop, the chunks of
\* the two failed attempts undone
C24_Witness ==
    /\ pc = "returned"
    /\ Cardinality({i \in DOMAIN log : log[i] = "Try Again!"}) = 2
    /\ Last(log) = "succeed"
    /\ output.ret = "None"
    /\ Len(scene) = Len(input.queue) + 1

=============================================================================
